---- MODULE Spec2Model ----
(***************************************************************************)
(* Airspace copilot: the anomaly detector (agents/anomaly_detector.py),    *)
(* the OpenSky fetcher (n8n_workflows/opensky_fetcher.py), the file store  *)
(* (mcp_server/data_store.py), the MCP tools and their endpoints           *)
(* (mcp_server/tools.py, mcp_server/server.py) and the backend's reads     *)
(* (backend_api.py) as a state machine.                                    *)
(*                                                                         *)
(* Encoding of Python values:                                              *)
(*   - an optional value is None (the empty tuple) or Some(v) (a 1-tuple), *)
(*     so "absent", "0" and "empty string" stay three different values;    *)
(*   - a string is a tuple of symbols; the symbol " " is whitespace and    *)
(*     every other symbol is a run of non-blank characters;                *)
(*   - latitude and longitude are integers in thousandths of a degree, so  *)
(*     the 0.01 degree of the stationary check is 10;                      *)
(*   - a dict read with .get() is a record whose missing keys hold None.   *)
(***************************************************************************)
EXTENDS Integers, Sequences, FiniteSets, TLC

VARIABLES
    previous_states,  \* AnomalyDetector.previous_states: key -> flight dict
    flights,          \* argument of the last detect_anomalies call
    anomalies,        \* value returned by the last detect_anomalies call
    snapshots,        \* files of DataStore.snapshots_dir: file name -> file
    alerts,           \* files of DataStore.alerts_dir: alert id -> alert
    now,              \* the wall clock read by datetime.now()
    request,          \* the last fetch_region call and what its environment did
    result,           \* value returned by the last fetch_region call
    cycles,           \* number of fetch_region calls made so far
    loop,             \* fetch_loop: its iteration, its place in region_configs
    call,             \* the call just made on the DataStore or the MCP tools
    reply,            \* what that call returned or raised
    writing,          \* names of the files opened with 'w' and not yet dumped
    running           \* fetch_loop: the fetch_region calls entered and not returned

vars == <<previous_states, flights, anomalies, snapshots, alerts, now,
          request, result, cycles, loop, call, reply, writing, running>>

detectorVars == <<previous_states, flights, anomalies>>
storeVars == <<snapshots, alerts, now>>
fetcherVars == <<request, result, cycles>>
loopVars == <<loop, running>>
callVars == <<call, reply>>
diskVars == <<writing>>

----------------------------------------------------------------------------
(* Python values *)

None == <<>>
Some(v) == <<v>>
Val(x) == x[1]

\* bool(x) of an optional number: None and 0 are falsy
TruthyNum(x) == x # None /\ Val(x) # 0

\* bool(x) of an optional string: None and "" are falsy
TruthyStr(x) == x # None /\ Val(x) # <<>>

Abs(n) == IF n < 0 THEN -n ELSE n

\* d[k] = v on a dict
Put(d, k, v) == [x \in (DOMAIN d) \cup {k} |-> IF x = k THEN v ELSE d[x]]

EmptyDict == [x \in {} |-> None]

\* str.strip() on a string of symbols
RECURSIVE LStrip(_)
LStrip(s) == IF s # <<>> /\ Head(s) = " " THEN LStrip(Tail(s)) ELSE s
RECURSIVE RStrip(_)
RStrip(s) ==
    IF s # <<>> /\ s[Len(s)] = " " THEN RStrip(SubSeq(s, 1, Len(s) - 1)) ELSE s
Strip(s) == RStrip(LStrip(s))

\* str.upper() of the strings that occur: a symbol without a lower-case
\* letter is its own upper case
UpperSymbol(c) ==
    CASE c = "test123" -> "TEST123"
      [] c = "abc123" -> "ABC123"
      [] c = "def456" -> "DEF456"
      [] c = "ghi789" -> "GHI789"
      [] OTHER -> c
Upper(s) == [i \in DOMAIN s |-> UpperSymbol(s[i])]

----------------------------------------------------------------------------
(* agents/anomaly_detector.py *)

THRESHOLDS ==
    [max_altitude_meters |-> 15000,
     min_velocity_kmh |-> 100,
     max_velocity_kmh |-> 1000,
     min_altitude_high_speed |-> 3000,
     high_speed_threshold |-> 600,
     stationary_time_seconds |-> 300,
     max_vertical_rate |-> 20]

\* the literals of _check_flight that are not in THRESHOLDS
HighAltitude == 8000
StationaryVelocity == 50
PositionEps == 10

Anomaly(flight, type, severity, template, callsign, args) ==
    [flight |-> flight,
     anomaly_type |-> type,
     severity |-> severity,
     description |-> [template |-> template, callsign |-> callsign, args |-> args]]

\* callsign = flight.get("callsign") or flight.get("icao24")
CallsignOf(flight) ==
    IF TruthyStr(flight.callsign) THEN Val(flight.callsign) ELSE flight.icao24

\* Check 1: High altitude with low speed
CheckHighAltitudeLowSpeed(flight) ==
    IF /\ TruthyNum(flight.altitude) /\ TruthyNum(flight.velocity)
       /\ Val(flight.altitude) > HighAltitude
       /\ Val(flight.velocity) < THRESHOLDS.min_velocity_kmh
    THEN <<Anomaly(flight, "high_altitude_low_speed", "medium",
                   "Flight {} at {}m with only {} km/h", CallsignOf(flight),
                   <<Val(flight.altitude), Val(flight.velocity)>>)>>
    ELSE <<>>

\* Check 2: Extremely high altitude
CheckExcessiveAltitude(flight) ==
    IF /\ TruthyNum(flight.altitude)
       /\ Val(flight.altitude) > THRESHOLDS.max_altitude_meters
    THEN <<Anomaly(flight, "excessive_altitude", "high",
                   "Flight {} at unusual altitude: {}m", CallsignOf(flight),
                   <<Val(flight.altitude)>>)>>
    ELSE <<>>

\* Check 3 with max_velocity_kmh taken for high_speed_threshold
CheckLowAltitudeHighSpeedAtMaxVelocity(flight) ==
    IF /\ TruthyNum(flight.altitude) /\ TruthyNum(flight.velocity)
       /\ Val(flight.altitude) < THRESHOLDS.min_altitude_high_speed
       /\ Val(flight.velocity) > THRESHOLDS.max_velocity_kmh
    THEN <<Anomaly(flight, "low_altitude_high_speed", "high",
                   "Flight {} at {} km/h at only {}m altitude", CallsignOf(flight),
                   <<Val(flight.velocity), Val(flight.altitude)>>)>>
    ELSE <<>>

\* Check 3: High speed at low altitude
CheckLowAltitudeHighSpeed(flight) ==
    IF /\ TruthyNum(flight.altitude) /\ TruthyNum(flight.velocity)
       /\ Val(flight.altitude) < THRESHOLDS.min_altitude_high_speed
       /\ Val(flight.velocity) > THRESHOLDS.high_speed_threshold
    THEN <<Anomaly(flight, "low_altitude_high_speed", "high",
                   "Flight {} at {} km/h at only {}m altitude", CallsignOf(flight),
                   <<Val(flight.velocity), Val(flight.altitude)>>)>>
    ELSE <<>>

\* Check 4: Rapid vertical movement
CheckRapidVerticalMovement(flight) ==
    IF /\ TruthyNum(flight.vertical_rate)
       /\ Abs(Val(flight.vertical_rate)) > THRESHOLDS.max_vertical_rate
    THEN <<Anomaly(flight, "rapid_vertical_movement", "medium",
                   IF Val(flight.vertical_rate) > 0
                   THEN "Flight {} climbing rapidly at {} m/s"
                   ELSE "Flight {} descending rapidly at {} m/s",
                   CallsignOf(flight), <<Abs(Val(flight.vertical_rate))>>)>>
    ELSE <<>>

\* Check 5: Unusual velocity
CheckExcessiveSpeed(flight) ==
    IF /\ TruthyNum(flight.velocity)
       /\ Val(flight.velocity) > THRESHOLDS.max_velocity_kmh
    THEN <<Anomaly(flight, "excessive_speed", "medium",
                   "Flight {} traveling at {} km/h (unusually fast)",
                   CallsignOf(flight), <<Val(flight.velocity)>>)>>
    ELSE <<>>

\* the guard of Check 6: if callsign and velocity is not None and velocity < 50
IsSlow(flight) ==
    /\ CallsignOf(flight) # <<>>
    /\ flight.velocity # None
    /\ Val(flight.velocity) < StationaryVelocity

\* Check 6: Stationary in air (checking with historical data)
CheckStationaryInAir(flight, previous) ==
    IF /\ IsSlow(flight)
       /\ CallsignOf(flight) \in DOMAIN previous
       /\ LET prev == previous[CallsignOf(flight)]
          IN /\ TruthyNum(prev.latitude) /\ TruthyNum(prev.longitude)
             /\ TruthyNum(flight.latitude) /\ TruthyNum(flight.longitude)
             /\ Abs(Val(flight.latitude) - Val(prev.latitude)) < PositionEps
             /\ Abs(Val(flight.longitude) - Val(prev.longitude)) < PositionEps
             /\ ~flight.on_ground
    THEN <<Anomaly(flight, "stationary_in_air", "high",
                   "Flight {} appears stationary in air", CallsignOf(flight), <<>>)>>
    ELSE <<>>

\* Update previous state: self.previous_states[callsign] = flight
UpdatePreviousState(flight, previous) ==
    IF IsSlow(flight) THEN Put(previous, CallsignOf(flight), flight) ELSE previous

\* _check_flight past the on-ground test
CheckAirborne(flight, previous) ==
    [anomalies |-> CheckHighAltitudeLowSpeed(flight)
                   \o CheckExcessiveAltitude(flight)
                   \o CheckLowAltitudeHighSpeed(flight)
                   \o CheckRapidVerticalMovement(flight)
                   \o CheckExcessiveSpeed(flight)
                   \o CheckStationaryInAir(flight, previous),
     previous_states |-> UpdatePreviousState(flight, previous)]

\* a _check_flight that runs the checks on a flight that is on the ground
CheckFlightNoGroundSkip(flight, previous) == CheckAirborne(flight, previous)

\* _check_flight: the list it returns and previous_states when it returns
CheckFlight(flight, previous) ==
    IF flight.on_ground
    THEN [anomalies |-> <<>>, previous_states |-> previous]
    ELSE CheckAirborne(flight, previous)

RECURSIVE DetectFromPrepend(_, _, _)
\* a detect_anomalies that puts the anomalies of each flight before those of
\* the flights checked earlier
DetectFromPrepend(batch, acc, previous) ==
    IF batch = <<>>
    THEN [anomalies |-> acc, previous_states |-> previous]
    ELSE LET r == CheckFlight(Head(batch), previous)
         IN DetectFromPrepend(Tail(batch), r.anomalies \o acc, r.previous_states)

RECURSIVE DetectFrom(_, _, _)
\* the loop of detect_anomalies over batch, from the list acc and the cursor previous
DetectFrom(batch, acc, previous) ==
    IF batch = <<>>
    THEN [anomalies |-> acc, previous_states |-> previous]
    ELSE LET r == CheckFlight(Head(batch), previous)
         IN DetectFrom(Tail(batch), acc \o r.anomalies, r.previous_states)

\* detect_anomalies: the list it returns and previous_states when it returns
DetectAnomalies(batch, previous) == DetectFrom(batch, <<>>, previous)

\* one "\n  - {callsign}: {description}" line of the summary, where callsign
\* is anomaly["flight"].get("callsign") or anomaly["flight"].get("icao24")
SummaryItem(anomaly) ==
    [part |-> "item", callsign |-> CallsignOf(anomaly.flight),
     description |-> anomaly.description]

\* the lines of the whole group, the slice forgotten
SummaryItemsUnsliced(group, limit) ==
    [i \in 1..Len(group) |-> SummaryItem(group[i])]

\* the lines of group[:limit]
SummaryItems(group, limit) ==
    [i \in 1..(IF Len(group) < limit THEN Len(group) ELSE limit) |->
        SummaryItem(group[i])]

\* a generate_summary that looks at the anomalies before the flights
GenerateSummaryAnomaliesFirst(all_flights, all_anomalies, region_name) ==
    IF Len(all_anomalies) = 0
    THEN <<[part |-> "flights", region |-> region_name,
            total_flights |-> Len(all_flights)],
           [part |-> "all_normal"]>>
    ELSE <<[part |-> "no_flights", region |-> region_name]>>

\* generate_summary(flights, anomalies, region_name): the text it returns, as
\* the sequence of the pieces it is concatenated from. The pieces are, with
\* the values put into their f-strings: "Region {region} currently has no
\* active flights." (no_flights), "Region {region} currently has
\* {total_flights} active flights." (flights), " All flights appear normal
\* with no anomalies detected." (all_normal), " {total_anomalies} flight(s)
\* are flagged as anomalous." (anomalous), "\n\nCRITICAL ALERTS ({count}):"
\* (critical_header), "\n\nMedium Priority ({count}):" (medium_header), the
\* item lines, and "\n\nMOST CRITICAL: {callsign} requires immediate
\* attention. Last position: {lat}, {lon}" (most_critical), whose position is
\* None when the flight has none
GenerateSummary(all_flights, all_anomalies, region_name) ==
    LET critical == SelectSeq(all_anomalies, LAMBDA a : a.severity = "high")
        medium == SelectSeq(all_anomalies, LAMBDA a : a.severity = "medium")
    IN IF Len(all_flights) = 0
       THEN <<[part |-> "no_flights", region |-> region_name]>>
       ELSE <<[part |-> "flights", region |-> region_name,
               total_flights |-> Len(all_flights)]>>
            \o (IF Len(all_anomalies) = 0
                THEN <<[part |-> "all_normal"]>>
                ELSE <<[part |-> "anomalous", total_anomalies |-> Len(all_anomalies)]>>
                     \o (IF critical # <<>>
                         THEN <<[part |-> "critical_header", count |-> Len(critical)]>>
                              \o SummaryItems(critical, 3)
                         ELSE <<>>)
                     \o (IF medium # <<>>
                         THEN <<[part |-> "medium_header", count |-> Len(medium)]>>
                              \o SummaryItems(medium, 2)
                         ELSE <<>>)
                     \o (IF critical # <<>>
                         THEN <<[part |-> "most_critical",
                                 callsign |-> CallsignOf(critical[1].flight),
                                 latitude |-> critical[1].flight.latitude,
                                 longitude |-> critical[1].flight.longitude]>>
                         ELSE <<>>))

----------------------------------------------------------------------------
(* mcp_server/data_store.py *)

\* datetime.now(): the clock has not moved since the last read, or has moved
\* by one unit; ticks[i] is what the i-th read of a call adds
Tick(ticks, i) == IF i \in DOMAIN ticks THEN ticks[i] ELSE 0

\* the read of the clock that opens save_snapshot and save_alert; S is the
\* state of the process: store, clock, detector, and the reads made so far
ReadClock(S, ticks) ==
    [S EXCEPT !.now = @ + Tick(ticks, S.reads + 1), !.reads = @ + 1]

\* save_snapshot past its read of the clock; fails means open() raises
WriteSnapshot(S, region_name, data, fails) ==
    IF fails
    THEN [exc |-> Some("OSError"), S |-> [S EXCEPT !.faulted = TRUE]]
    ELSE [exc |-> None,
          S |-> [S EXCEPT !.snapshots =
                    Put(@, [region |-> region_name, timestamp |-> S.now],
                        [content |-> [region |-> region_name, timestamp |-> S.now,
                                      data |-> data],
                         mtime |-> S.now])]]

\* save_snapshot(region_name, data)
SaveSnapshot(S, region_name, data, ticks, fails) ==
    WriteSnapshot(ReadClock(S, ticks), region_name, data, fails)

\* save_alert past its read of the clock; fails means open() raises
WriteAlert(S, alert_data, fails) ==
    IF fails
    THEN [exc |-> Some("OSError"), S |-> [S EXCEPT !.faulted = TRUE]]
    ELSE [exc |-> None,
          S |-> [S EXCEPT !.alerts =
                    Put(@, S.now,
                        [alert_id |-> S.now, timestamp |-> S.now,
                         region |-> alert_data.region,
                         callsign |-> alert_data.callsign,
                         icao24 |-> alert_data.icao24,
                         anomaly_type |-> alert_data.anomaly_type,
                         severity |-> alert_data.severity,
                         description |-> alert_data.description,
                         flight_data |-> alert_data.flight_data])]]

\* save_alert(alert_data): the alert id is the time read, as "alert_<time>"
SaveAlert(S, alert_data, ticks, fails) ==
    WriteAlert(ReadClock(S, ticks), alert_data, fails)

\* the name of the file that save_snapshot writes for key k
FileName(k) == k.region \o <<"_", ToString(k.timestamp), ".json">>

StartsWith(s, p) == Len(s) >= Len(p) /\ SubSeq(s, 1, Len(p)) = p
EndsWith(s, p) == Len(s) >= Len(p) /\ SubSeq(s, Len(s) - Len(p) + 1, Len(s)) = p

\* snapshots_dir.glob(f"{region_name}_*.json"): the files whose name starts
\* with the region name and "_" and ends with ".json"
GlobRegion(files, region_name) ==
    {k \in DOMAIN files :
        /\ Len(FileName(k)) >= Len(region_name) + 2
        /\ StartsWith(FileName(k), region_name \o <<"_">>)
        /\ EndsWith(FileName(k), <<".json">>)}

\* max(snapshots, key=os.path.getmtime): a file that no file of ks is newer
\* than; among files of one mtime the directory listing decides
Newest(files, ks) == {k \in ks : \A j \in ks : files[j].mtime <= files[k].mtime}

\* get_latest_snapshot(region_name): the values it can return
GetLatestSnapshot(files, region_name) ==
    IF GlobRegion(files, region_name) = {}
    THEN {None}
    ELSE {Some(files[k].content) : k \in Newest(files, GlobRegion(files, region_name))}

\* sorted(snapshots_dir.glob("*.json"), key=os.path.getmtime, reverse=True):
\* the files newest first; files of one mtime keep the order of the directory
\* listing, which is any order
SortedByMtime(files) ==
    {o \in [1..Cardinality(DOMAIN files) -> DOMAIN files] :
        /\ \A i, j \in DOMAIN o : i # j => o[i] # o[j]
        /\ \A i, j \in DOMAIN o : i < j => files[o[i]].mtime >= files[o[j]].mtime}

\* the slice snapshots[:10] of the two searches
ScanLimit == 10
Recent(order) ==
    SubSeq(order, 1, IF Len(order) < ScanLimit THEN Len(order) ELSE ScanLimit)

NotFound == [raised |-> None, value |-> None]
Raised(exc) == [raised |-> Some(exc), value |-> None]

\* the dict that the two searches build from a row and its snapshot; a row of
\* fewer than 12 fields raises IndexError
FoundFlight(state, snapshot) ==
    IF Len(state) < 12
    THEN Raised("IndexError")
    ELSE [raised |-> None,
          value |-> Some([callsign |-> IF TruthyStr(state[2])
                                       THEN Some(Strip(Val(state[2]))) ELSE None,
                          icao24 |-> state[1],
                          origin_country |-> state[3],
                          longitude |-> state[6],
                          latitude |-> state[7],
                          altitude |-> state[8],
                          velocity |-> state[10],
                          heading |-> state[11],
                          vertical_rate |-> state[12],
                          on_ground |-> state[9],
                          timestamp |-> snapshot.timestamp,
                          region |-> snapshot.region])]

\* len(state) > 1 and state[1] and state[1].strip() == callsign.strip()
MatchesCallsign(state, callsign) ==
    /\ Len(state) > 1
    /\ TruthyStr(state[2])
    /\ Strip(Val(state[2])) = Strip(callsign)

\* len(state) > 0 and state[0] == icao24
MatchesIcao24(state, icao24) == Len(state) > 0 /\ state[1] = icao24

\* the two nested loops of get_flight_by_callsign (byCallsign) and of
\* get_flight_by_icao24, from row j of the i-th file of order; a "states"
\* that holds null raises TypeError when the inner loop starts
RECURSIVE ScanFrom(_, _, _, _, _, _)
ScanFrom(files, order, i, j, query, byCallsign) ==
    IF i > Len(order)
    THEN NotFound
    ELSE IF files[order[i]].content.data.states = None
    THEN ScanFrom(files, order, i + 1, 1, query, byCallsign)
    ELSE IF files[order[i]].content.data.states = Some(None)
    THEN Raised("TypeError")
    ELSE IF j > Len(Val(Val(files[order[i]].content.data.states)))
    THEN ScanFrom(files, order, i + 1, 1, query, byCallsign)
    ELSE IF (IF byCallsign
             THEN MatchesCallsign(Val(Val(files[order[i]].content.data.states))[j], query)
             ELSE MatchesIcao24(Val(Val(files[order[i]].content.data.states))[j], query))
    THEN FoundFlight(Val(Val(files[order[i]].content.data.states))[j],
                     files[order[i]].content)
    ELSE ScanFrom(files, order, i, j + 1, query, byCallsign)

\* get_flight_by_callsign(callsign), the directory listed as order
GetFlightByCallsign(files, order, callsign) ==
    ScanFrom(files, Recent(order), 1, 1, callsign, TRUE)

\* get_flight_by_icao24(icao24), the directory listed as order
GetFlightByIcao24(files, order, icao24) ==
    ScanFrom(files, Recent(order), 1, 1, icao24, FALSE)

\* the alert ids of ids, greatest timestamp first: alerts.sort(key=lambda x:
\* x["timestamp"], reverse=True); ISO timestamps of one process sort as times
RECURSIVE SortedByTimestamp(_, _)
SortedByTimestamp(alertfiles, ids) ==
    IF ids = {}
    THEN <<>>
    ELSE <<alertfiles[CHOOSE a \in ids :
                        \A b \in ids : alertfiles[b].timestamp <= alertfiles[a].timestamp]>>
         \o SortedByTimestamp(alertfiles,
                ids \ {CHOOSE a \in ids :
                         \A b \in ids : alertfiles[b].timestamp <= alertfiles[a].timestamp})

\* a get_active_alerts that leaves out the alert that is exactly max_age old
GetActiveAlertsStrictlyNewer(alertfiles, at, max_age_hours) ==
    SortedByTimestamp(alertfiles,
        {a \in DOMAIN alertfiles : alertfiles[a].timestamp > at - max_age_hours})

\* get_active_alerts(max_age_hours) when its datetime.now() reads at; the
\* clock counts hours where this operation is used
GetActiveAlerts(alertfiles, at, max_age_hours) ==
    SortedByTimestamp(alertfiles,
        {a \in DOMAIN alertfiles : alertfiles[a].timestamp >= at - max_age_hours})

\* the name of the file that save_alert writes for alert id
AlertFileName(id) == <<"alert_", ToString(id), ".json">>

\* get_latest_snapshot(region_name) when the files named in unreadable hold
\* no complete JSON text (opened with 'w', not yet dumped): json.load of line
\* 59 raises on such a file; the replies it can give
ReadLatestSnapshot(files, unreadable, region_name) ==
    IF GlobRegion(files, region_name) = {}
    THEN {NotFound}
    ELSE {IF FileName(k) \in unreadable
          THEN Raised("JSONDecodeError")
          ELSE [raised |-> None, value |-> Some(files[k].content)] :
            k \in Newest(files, GlobRegion(files, region_name))}

\* the scan of get_flight_by_callsign or get_flight_by_icao24 over such
\* files: it ends as ScanFrom says in the files listed before the first
\* unreadable one, and json.load of line 84 or 114 raises when it gets there
ReadScan(files, unreadable, order, query, byCallsign) ==
    LET recent == Recent(order)
        bad == {i \in DOMAIN recent : FileName(recent[i]) \in unreadable}
    IN IF bad = {}
       THEN ScanFrom(files, recent, 1, 1, query, byCallsign)
       ELSE LET first == CHOOSE i \in bad : \A j \in bad : i <= j
                before == ScanFrom(files, SubSeq(recent, 1, first - 1), 1, 1,
                                   query, byCallsign)
            IN IF before = NotFound THEN Raised("JSONDecodeError") ELSE before

\* get_active_alerts over such files: its loop loads every alert file
\* (lines 163-165) before it looks at the timestamp
ReadActiveAlerts(alertfiles, unreadable, at, max_age_hours) ==
    IF \E id \in DOMAIN alertfiles : AlertFileName(id) \in unreadable
    THEN Raised("JSONDecodeError")
    ELSE [raised |-> None, value |-> Some(GetActiveAlerts(alertfiles, at, max_age_hours))]

\* a cleanup_old_snapshots that keeps the oldest files
CleanupKeepOldest(files, order, max_snapshots) ==
    IF Len(order) > max_snapshots
    THEN [k \in {order[i] : i \in (Len(order) - max_snapshots + 1)..Len(order)}
            |-> files[k]]
    ELSE files

\* cleanup_old_snapshots(max_snapshots), the directory listed as order: the
\* files that are left
CleanupOldSnapshots(files, order, max_snapshots) ==
    IF Len(order) > max_snapshots
    THEN [k \in {order[i] : i \in 1..max_snapshots} |-> files[k]]
    ELSE files

----------------------------------------------------------------------------
(* n8n_workflows/opensky_fetcher.py *)

\* the JSON value under key "states" of a response body: the key is missing
\* (None), holds null (Some(None)) or holds a list of rows (Some(Some(rows)))
StatesMissing == None
StatesNull == Some(None)
StatesList(rows) == Some(Some(rows))

\* the dict built from one row (Python index i is field i + 1)
ParseState(state) ==
    [icao24 |-> state[1],
     callsign |-> IF TruthyStr(state[2]) THEN Some(Strip(Val(state[2]))) ELSE None,
     origin_country |-> state[3],
     longitude |-> state[6],
     latitude |-> state[7],
     altitude |-> state[8],
     on_ground |-> state[9],
     velocity |-> state[10],
     heading |-> state[11],
     vertical_rate |-> state[12]]

\* a _parse_flights that wants more than 12 fields
RECURSIVE ParseStatesStrict(_)
ParseStatesStrict(states) ==
    IF states = <<>> THEN <<>>
    ELSE (IF Len(Head(states)) > 12 THEN <<ParseState(Head(states))>> ELSE <<>>)
         \* the rows left are read as the code reads them
         \o ParseStatesStrict(Tail(states))

RECURSIVE ParseStates(_)
ParseStates(states) ==
    IF states = <<>> THEN <<>>
    ELSE (IF Len(Head(states)) >= 12 THEN <<ParseState(Head(states))>> ELSE <<>>)
         \o ParseStates(Tail(states))

\* _parse_flights(opensky_data)
ParseFlights(opensky_data) ==
    IF /\ opensky_data.states # StatesMissing
       /\ Val(opensky_data.states) # None
       /\ Val(Val(opensky_data.states)) # <<>>
    THEN ParseStates(Val(Val(opensky_data.states)))
    ELSE <<>>

\* the classes of the exceptions that fetch_region can meet
IsTimeout(exc) == exc = "Timeout"
IsRequestException(exc) ==
    exc \in {"Timeout", "ConnectionError", "HTTPError", "JSONDecodeError"}
IsException(exc) ==
    exc \in {"Timeout", "ConnectionError", "HTTPError", "JSONDecodeError",
             "ValueError", "TypeError", "OSError"}

Returned ==
    [raised |-> None, success |-> FALSE, error |-> None, status_code |-> None,
     region |-> None, timestamp |-> None, total_flights |-> None, anomalies |-> None]

\* the except clauses of fetch_region without the last one, except Exception
HandleRequestExceptionsOnly(exc) ==
    IF IsTimeout(exc)
    THEN [Returned EXCEPT !.error = Some("Request timeout")]
    ELSE IF IsRequestException(exc)
    THEN [Returned EXCEPT !.error = Some(exc)]
    ELSE [Returned EXCEPT !.raised = Some(exc)]

\* the except clauses of fetch_region: the dict returned for exception exc,
\* or the exception it lets through
HandleException(exc) ==
    IF IsTimeout(exc)
    THEN [Returned EXCEPT !.error = Some("Request timeout")]
    ELSE IF IsRequestException(exc)
    THEN [Returned EXCEPT !.error = Some(exc)]
    ELSE IF IsException(exc)
    THEN [Returned EXCEPT !.error = Some(exc)]
    ELSE [Returned EXCEPT !.raised = Some(exc)]

\* alert_data of one anomaly
AlertData(region_name, anomaly) ==
    [region |-> region_name,
     callsign |-> anomaly.flight.callsign,
     icao24 |-> anomaly.flight.icao24,
     anomaly_type |-> anomaly.anomaly_type,
     severity |-> anomaly.severity,
     description |-> anomaly.description,
     flight_data |-> anomaly.flight]

\* the loop "for anomaly in anomalies" once save_alert has answered saved for
\* the i-th anomaly
RECURSIVE SaveAlertsAfter(_, _, _, _, _, _)

\* for anomaly in anomalies: ... save_alert(alert_data), from the i-th anomaly
SaveAlertsFrom(S, region_name, anoms, i, ticks, fault) ==
    IF i > Len(anoms)
    THEN [exc |-> None, S |-> S]
    ELSE SaveAlertsAfter(SaveAlert(S, AlertData(region_name, anoms[i]), ticks,
                                   fault.op = "alert" /\ fault.index = i),
                         region_name, anoms, i, ticks, fault)

SaveAlertsAfter(saved, region_name, anoms, i, ticks, fault) ==
    IF saved.exc # None THEN saved
    ELSE SaveAlertsFrom(saved.S, region_name, anoms, i + 1, ticks, fault)

\* the return of the try block; its datetime.now() reads the time of the last
\* read (no caller looks at this timestamp)
ReturnSuccess(S, region_name, parsed, anoms) ==
    [exc |-> None,
     ret |-> [Returned EXCEPT !.success = TRUE,
                              !.region = Some(region_name),
                              !.timestamp = Some(S.now),
                              !.total_flights = Some(Len(parsed)),
                              !.anomalies = Some(Len(anoms))],
     S |-> S]

\* the try block once the loop over the anomalies has ended as alerted
AfterAlerts(alerted, region_name, parsed, anoms) ==
    IF alerted.exc # None
    THEN [exc |-> alerted.exc, ret |-> Returned, S |-> alerted.S]
    ELSE ReturnSuccess(alerted.S, region_name, parsed, anoms)

\* the try block once detect_anomalies has returned detected
AfterDetect(S, detected, region_name, parsed, ticks, fault) ==
    AfterAlerts(SaveAlertsFrom([S EXCEPT !.previous_states = detected.previous_states,
                                         !.flights = parsed,
                                         !.anomalies = detected.anomalies],
                               region_name, detected.anomalies, 1, ticks, fault),
                region_name, parsed, detected.anomalies)

\* the try block once save_snapshot has answered saved; fault "detect" is a
\* field of the first parsed row that is not a number, on which a comparison
\* of _check_flight raises TypeError before any cursor update
AfterSnapshot(saved, region_name, parsed, ticks, fault) ==
    IF saved.exc # None
    THEN [exc |-> saved.exc, ret |-> Returned, S |-> saved.S]
    ELSE IF fault.op = "detect"
    THEN [exc |-> Some("TypeError"), ret |-> Returned,
          S |-> [saved.S EXCEPT !.faulted = TRUE]]
    ELSE AfterDetect(saved.S, DetectAnomalies(parsed, saved.S.previous_states),
                     region_name, parsed, ticks, fault)

\* a try block that detects and saves the alerts first and saves the
\* snapshot last
PersistAfterDetect(S, region_name, data, ticks, fault) ==
    LET parsed == ParseFlights(data)
        detected == DetectAnomalies(parsed, S.previous_states)
        alerted == SaveAlertsFrom([S EXCEPT !.previous_states = detected.previous_states,
                                            !.flights = parsed,
                                            !.anomalies = detected.anomalies],
                                  region_name, detected.anomalies, 1, ticks, fault)
        saved == SaveSnapshot(alerted.S, region_name, data, ticks, fault.op = "snapshot")
    IN IF alerted.exc # None
       THEN [exc |-> alerted.exc, ret |-> Returned, S |-> alerted.S]
       ELSE IF saved.exc # None
       THEN [exc |-> saved.exc, ret |-> Returned, S |-> saved.S]
       ELSE ReturnSuccess(saved.S, region_name, parsed, detected.anomalies)

\* the try block of fetch_region from "Save snapshot" on, for a parsed body
PersistAndDetect(S, region_name, data, ticks, fault) ==
    AfterSnapshot(SaveSnapshot(S, region_name, data, ticks, fault.op = "snapshot"),
                  region_name, ParseFlights(data), ticks, fault)

\* a requests.get that sends the request again before it answers
SendRequestTwice(S) == [S EXCEPT !.requests = @ + 2]

\* response = requests.get(self.BASE_URL, params=params, timeout=15): one
\* request goes to the provider, whatever it answers
SendRequest(S) == [S EXCEPT !.requests = @ + 1]

\* a try block that saves what it received before raise_for_status
TryFetchSaveBeforeStatus(S, region_name, response, ticks, fault) ==
    IF response.outcome = "timeout"
    THEN [exc |-> Some("Timeout"), ret |-> Returned, S |-> SendRequest(S)]
    ELSE IF response.outcome = "connection_error"
    THEN [exc |-> Some("ConnectionError"), ret |-> Returned, S |-> SendRequest(S)]
    ELSE IF response.outcome = "rate_limited"
    THEN [exc |-> None,
          ret |-> [Returned EXCEPT !.error = Some("Rate limited"),
                                   !.status_code = Some(429)],
          S |-> SendRequest(S)]
    ELSE IF response.outcome = "http_error"
    THEN [exc |-> Some("HTTPError"), ret |-> Returned,
          S |-> WriteSnapshot(SendRequest(S), region_name, [states |-> StatesMissing], FALSE).S]
    ELSE IF response.outcome = "bad_json"
    THEN [exc |-> Some("JSONDecodeError"), ret |-> Returned, S |-> SendRequest(S)]
    ELSE IF response.outcome = "bad_json_legacy"
    THEN [exc |-> Some("ValueError"), ret |-> Returned, S |-> SendRequest(S)]
    ELSE IF Val(response.data).states = StatesNull
    THEN [exc |-> Some("TypeError"), ret |-> Returned, S |-> SendRequest(S)]
    ELSE PersistAndDetect(SendRequest(S), region_name, Val(response.data), ticks, fault)

\* the try block of fetch_region: the exception it raises or the dict it
\* returns, and the state it leaves
TryFetch(S, region_name, response, ticks, fault) ==
    IF response.outcome = "timeout"
    THEN [exc |-> Some("Timeout"), ret |-> Returned, S |-> SendRequest(S)]
    ELSE IF response.outcome = "connection_error"
    THEN [exc |-> Some("ConnectionError"), ret |-> Returned, S |-> SendRequest(S)]
    ELSE IF response.outcome = "rate_limited"
    THEN [exc |-> None,
          ret |-> [Returned EXCEPT !.error = Some("Rate limited"),
                                   !.status_code = Some(429)],
          S |-> SendRequest(S)]
    ELSE IF response.outcome = "http_error"
    THEN [exc |-> Some("HTTPError"), ret |-> Returned, S |-> SendRequest(S)]
    ELSE IF response.outcome = "bad_json"
    THEN [exc |-> Some("JSONDecodeError"), ret |-> Returned, S |-> SendRequest(S)]
    ELSE IF response.outcome = "bad_json_legacy"
    THEN [exc |-> Some("ValueError"), ret |-> Returned, S |-> SendRequest(S)]
    ELSE IF Val(response.data).states = StatesNull
    THEN [exc |-> Some("TypeError"), ret |-> Returned, S |-> SendRequest(S)]
    ELSE PersistAndDetect(SendRequest(S), region_name, Val(response.data), ticks, fault)

\* the dict fetch_region returns (or the exception that leaves it) when its
\* try block has ended as body
Outcome(body) ==
    [result |-> IF body.exc = None THEN body.ret ELSE HandleException(Val(body.exc)),
     S |-> body.S]

\* fetch_region(region_name, bounding_box): what it returns and the state it
\* leaves
FetchRegionCall(S, region_name, response, ticks, fault) ==
    Outcome(TryFetch(S, region_name, response, ticks, fault))

----------------------------------------------------------------------------
(* mcp_server/tools.py *)

\* get_by_callsign past "Try callsign first": if not flight, try ICAO24
AfterCallsignSearch(found, files, order, callsign) ==
    IF found.raised # None \/ found.value # None
    THEN found
    ELSE GetFlightByIcao24(files, order, callsign)

\* the dict get_by_callsign returns when its searches ended as found
ToolResult(found, callsign) ==
    IF found.raised # None
    THEN found
    ELSE IF found.value = None
    THEN [raised |-> None,
          value |-> Some([success |-> FALSE, flight |-> None,
                          error |-> Some(<<"Flight not found: ">> \o callsign),
                          callsign |-> Some(callsign)])]
    ELSE [raised |-> None,
          value |-> Some([success |-> TRUE, flight |-> found.value,
                          error |-> None, callsign |-> None])]

\* MCPTools.get_by_callsign(callsign), the directory listed as order
GetByCallsign(files, order, callsign) ==
    ToolResult(AfterCallsignSearch(GetFlightByCallsign(files, order, callsign),
                                   files, order, callsign),
               callsign)

\* the loop of list_region_snapshot over snapshot["data"]["states"]
RECURSIVE ToolFlights(_)
ToolFlights(states) ==
    IF states = <<>> THEN <<>>
    ELSE (IF Len(Head(states)) >= 12
          THEN <<[icao24 |-> Head(states)[1],
                  callsign |-> IF TruthyStr(Head(states)[2])
                               THEN Some(Strip(Val(Head(states)[2]))) ELSE None,
                  origin_country |-> Head(states)[3],
                  longitude |-> Head(states)[6],
                  latitude |-> Head(states)[7],
                  altitude |-> Head(states)[8],
                  on_ground |-> Head(states)[9],
                  velocity |-> Head(states)[10],
                  heading |-> Head(states)[11],
                  vertical_rate |-> Head(states)[12]]>>
          ELSE <<>>)
         \o ToolFlights(Tail(states))

\* the dict of lines 62-68
RegionResult(snapshot, region_name, parsed) ==
    [raised |-> None,
     value |-> Some([success |-> TRUE, error |-> None, region |-> region_name,
                     timestamp |-> Some(snapshot.timestamp),
                     total_flights |-> Some(Len(parsed)), flights |-> parsed])]

\* MCPTools.list_region_snapshot(region_name) once get_latest_snapshot has
\* answered got: the for loop of line 46 raises TypeError on a "states" that
\* holds null
ListRegionSnapshot(got, region_name) ==
    IF got.raised # None
    THEN got
    ELSE IF got.value = None
    THEN [raised |-> None,
          value |-> Some([success |-> FALSE,
                          error |-> Some(<<"No snapshot found for region: ">>
                                         \o region_name),
                          region |-> region_name, timestamp |-> None,
                          total_flights |-> None, flights |-> <<>>])]
    ELSE IF Val(got.value).data.states = None
    THEN RegionResult(Val(got.value), region_name, <<>>)
    ELSE IF Val(Val(got.value).data.states) = None
    THEN Raised("TypeError")
    ELSE RegionResult(Val(got.value), region_name,
                      ToolFlights(Val(Val(Val(got.value).data.states))))

\* MCPTools.get_by_callsign(callsign) over files of which some are unreadable
ReadByCallsign(files, unreadable, order, callsign) ==
    LET found == ReadScan(files, unreadable, order, callsign, TRUE)
    IN ToolResult(IF found.raised # None \/ found.value # None
                  THEN found
                  ELSE ReadScan(files, unreadable, order, callsign, FALSE),
                  callsign)

\* MCPTools.list_active_alerts(max_age_hours) once get_active_alerts has
\* answered got
ListActiveAlerts(got) ==
    IF got.raised # None
    THEN got
    ELSE [raised |-> None,
          value |-> Some([success |-> TRUE, total_alerts |-> Len(Val(got.value)),
                          alerts |-> Val(got.value)])]

----------------------------------------------------------------------------
(* mcp_server/server.py *)

\* the try/except of the three tool endpoints: the tool's dict is the body
\* of the answer; any exception is raised again as HTTPException(500, str(e))
Endpoint(r) ==
    IF r.raised # None
    THEN [raised |-> Some("HTTPException"), status_code |-> 500,
          detail |-> r.raised, value |-> None]
    ELSE [raised |-> None, status_code |-> 200, detail |-> None, value |-> r.value]

----------------------------------------------------------------------------
(* backend_api.py *)

\* get_snapshot(region_name): the glob and the max by mtime are those of
\* get_latest_snapshot, the loop over data["data"]["states"] is that of
\* list_region_snapshot; the values it can return
GetSnapshot(files, region_name) ==
    IF GlobRegion(files, region_name) = {}
    THEN {[raised |-> None,
           value |-> Some([success |-> FALSE,
                           error |-> Some(<<"No data for ">> \o region_name),
                           region |-> None, timestamp |-> None,
                           total_flights |-> None, flights |-> <<>>])]}
    ELSE {IF files[k].content.data.states = None
          THEN RegionResult(files[k].content, region_name, <<>>)
          ELSE IF Val(files[k].content.data.states) = None
          THEN Raised("TypeError")
          ELSE RegionResult(files[k].content, region_name,
                            ToolFlights(Val(Val(files[k].content.data.states)))) :
            k \in Newest(files, GlobRegion(files, region_name))}

\* cs == callsign or s[0].upper() == callsign, for the row s and the query
\* once stripped and upper-cased, cs being the row's callsign stripped and
\* upper-cased, or "" when the row has none
BackendMatches(s, callsign) ==
    \/ (IF TruthyStr(s[2]) THEN Upper(Strip(Val(s[2]))) ELSE <<>>) = callsign
    \/ Upper(s[1]) = callsign

\* the dict of lines 50-52
BackendFlight(s) ==
    [raised |-> None,
     value |-> Some([success |-> TRUE, error |-> None,
                     flight |-> Some([icao24 |-> s[1],
                                      callsign |-> IF TruthyStr(s[2])
                                                   THEN Some(Strip(Val(s[2])))
                                                   ELSE None,
                                      origin_country |-> s[3],
                                      longitude |-> s[6],
                                      latitude |-> s[7],
                                      altitude |-> s[8],
                                      on_ground |-> s[9],
                                      velocity |-> s[10],
                                      heading |-> s[11],
                                      vertical_rate |-> s[12]])])]

\* the two nested loops of get_flight from row j of the i-th file of order;
\* rows of fewer than 12 fields are passed over, a "states" that holds null
\* raises TypeError
RECURSIVE BackendScan(_, _, _, _, _)
BackendScan(files, order, i, j, callsign) ==
    IF i > Len(order)
    THEN [raised |-> None,
          value |-> Some([success |-> FALSE, flight |-> None,
                          error |-> Some(<<"Flight ">> \o callsign
                                         \o <<" not found">>)])]
    ELSE IF files[order[i]].content.data.states = None
    THEN BackendScan(files, order, i + 1, 1, callsign)
    ELSE IF files[order[i]].content.data.states = Some(None)
    THEN Raised("TypeError")
    ELSE IF j > Len(Val(Val(files[order[i]].content.data.states)))
    THEN BackendScan(files, order, i + 1, 1, callsign)
    ELSE IF /\ Len(Val(Val(files[order[i]].content.data.states))[j]) >= 12
            /\ BackendMatches(Val(Val(files[order[i]].content.data.states))[j],
                              callsign)
    THEN BackendFlight(Val(Val(files[order[i]].content.data.states))[j])
    ELSE BackendScan(files, order, i, j + 1, callsign)

\* get_flight(callsign), the directory listed as order
GetFlight(files, order, callsign) ==
    BackendScan(files, Recent(order), 1, 1, Upper(Strip(callsign)))

----------------------------------------------------------------------------
(* Flight dicts given to the detector *)

Flight(icao24, callsign, on_ground, altitude, velocity, vertical_rate, latitude, longitude) ==
    [icao24 |-> icao24, callsign |-> callsign, origin_country |-> None,
     longitude |-> longitude, latitude |-> latitude, altitude |-> altitude,
     on_ground |-> on_ground, velocity |-> velocity, heading |-> None,
     vertical_rate |-> vertical_rate]

\* test_flights of the module's self-test
SampleTest == Flight(<<"abc123">>, Some(<<"TEST123">>), FALSE, Some(12000), Some(80),
                     None, Some(37800), Some(-122400))
SampleNormal == Flight(<<"def456">>, Some(<<"NORMAL1">>), FALSE, Some(10000), Some(450),
                       None, Some(37900), Some(-122500))
SampleFast == Flight(<<"ghi789">>, Some(<<"FAST123">>), FALSE, Some(2000), Some(700),
                     None, Some(38000), Some(-122600))
SampleBatch == <<SampleTest, SampleNormal, SampleFast>>

\* Inputs of the rule bank: one aircraft at one place, every combination of
\* on_ground, altitude, velocity and vertical rate around the thresholds.
Altitudes == {None, Some(0), Some(2000), Some(12000), Some(16000)}
Velocities == {None, Some(0), Some(40), Some(80), Some(700), Some(1100)}
VerticalRates == {None, Some(0), Some(25), Some(-25)}

RuleFlights ==
    {Flight(<<"abc123">>, Some(<<"TEST123">>), g, a, v, r, Some(37800), Some(-122400)) :
        g \in BOOLEAN, a \in Altitudes, v \in Velocities, r \in VerticalRates}

Hover == Flight(<<"abc123">>, Some(<<"TEST123">>), FALSE, Some(16000), Some(40),
                None, Some(37800), Some(-122400))
Grounded == Flight(<<"abc123">>, Some(<<"TEST123">>), TRUE, Some(16000), Some(0),
                   Some(25), Some(37800), Some(-122400))

\* longest batch built from BatchFlights
MaxBatch == 2
BatchFlights == {SampleTest, SampleNormal, SampleFast, Hover, Grounded}
SeqsUpTo(S, n) == UNION {[1..k -> S] : k \in 1..n}

RuleBatches ==
    {<<f>> : f \in RuleFlights} \cup SeqsUpTo(BatchFlights, MaxBatch) \cup {SampleBatch}

\* Inputs of the history cursor: two aircraft that share a callsign, one of
\* them also seen without a callsign, slow and fast, at places that are the
\* same, far apart, on the zero meridian or equator, or unknown.
TrackIdentities ==
    {<<<<"abc123">>, Some(<<"TEST123">>)>>,
     <<<<"def456">>, Some(<<"TEST123">>)>>,
     <<<<"abc123">>, None>>}
TrackVelocities == {None, Some(0), Some(80)}
TrackPositions ==
    {<<Some(5), Some(5)>>, <<Some(500), Some(5)>>, <<Some(5), Some(500)>>,
     <<Some(0), Some(5)>>, <<Some(5), Some(0)>>,
     <<None, Some(5)>>, <<Some(5), None>>}

TrackFlights ==
    {Flight(id[1], id[2], FALSE, Some(2000), v, None, p[1], p[2]) :
        id \in TrackIdentities, v \in TrackVelocities, p \in TrackPositions}

TrackBatches == {<<f>> : f \in TrackFlights}

----------------------------------------------------------------------------
(* What the provider answers and what the storage does *)

\* one row of "states": the 12 leading fields of an OpenSky state vector
Row(icao24, callsign, on_ground, altitude, velocity, vertical_rate, latitude, longitude) ==
    <<icao24, callsign, Some(<<"United", " ", "States">>), Some(0), Some(0),
      longitude, latitude, altitude, on_ground, velocity, Some(90), vertical_rate>>

\* high and slow: one anomaly; the callsign is padded as the provider pads it
RowTest == Row(<<"abc123">>, Some(<<"TEST123", " ">>), FALSE, Some(12000), Some(80),
               Some(0), Some(37800), Some(-122400))
\* too high and slow, no callsign: two anomalies
RowHigh == Row(<<"def456">>, None, FALSE, Some(16000), Some(80), None,
               Some(37900), Some(-122500))
\* slow and low: recorded in the cursor, stationary when seen again
RowHover == Row(<<"ghi789">>, Some(<<"HOVER">>), FALSE, Some(2000), Some(0), Some(0),
                Some(38000), Some(-122600))
\* a truncated row
RowShort == <<<<"abc123">>, Some(<<"TEST123", " ">>), None, Some(0), Some(0)>>

Payloads ==
    {[states |-> StatesMissing],
     [states |-> StatesNull],
     [states |-> StatesList(<<>>)],
     [states |-> StatesList(<<RowShort, RowTest>>)],
     [states |-> StatesList(<<RowHigh>>)],
     [states |-> StatesList(<<RowHover>>)]}

FailureOutcomes ==
    {"rate_limited", "timeout", "connection_error", "http_error", "bad_json",
     "bad_json_legacy"}

Responses ==
    {[outcome |-> o, data |-> None] : o \in FailureOutcomes}
    \cup {[outcome |-> "ok", data |-> Some(d)] : d \in Payloads}

Regions == {<<"USA">>, <<"USA", "_", "East_Coast">>}

\* an aircraft whose callsign reads like the identifier of another one
RowAlias == Row(<<"def456">>, Some(<<"abc123">>), FALSE, Some(10000), Some(450),
                Some(0), Some(37900), Some(-122500))

\* payloads saved through the store
StorePayloads ==
    {[states |-> StatesList(<<RowTest>>)], [states |-> StatesList(<<RowAlias>>)]}

\* what get_by_callsign is asked for
Queries == {<<"TEST123">>, <<"test123">>, <<"abc123">>, <<"ABC123">>, <<"UAL123">>}

\* alert_data given to save_alert
AlertInputs ==
    {AlertData(<<"USA">>, CheckHighAltitudeLowSpeed(SampleTest)[1]),
     AlertData(<<"USA">>, CheckLowAltitudeHighSpeed(SampleFast)[1])}

\* a callsign of blanks only, an empty callsign, a callsign padded on both
\* sides, a row of 13 fields and a row of 11
RowBlank == Row(<<"bbb222">>, Some(<<" ", " ">>), FALSE, Some(10000), Some(450),
                Some(0), Some(37900), Some(-122500))
RowEmpty == Row(<<"eee333">>, Some(<<>>), FALSE, Some(10000), Some(450),
                Some(0), Some(37900), Some(-122500))
RowPadded == Row(<<"ppp444">>, Some(<<" ", "PAD", " ", "1", " ">>), TRUE, None, None,
                 None, None, None)
RowLong == RowHigh \o <<Some(0)>>
RowEleven == SubSeq(RowTest, 1, 11)

\* the rows of the bodies given to _parse_flights, and how many a body holds
ParseRows == {RowTest, RowHigh, RowShort, RowBlank, RowEmpty, RowPadded, RowLong, RowEleven}
MaxRows == 3

\* how often one body is given to _parse_flights
MaxRuns == 2

ParseInputs ==
    {[states |-> StatesMissing], [states |-> StatesNull], [states |-> StatesList(<<>>)]}
    \cup {[states |-> StatesList(rows)] :
             rows \in UNION {[1..n -> ParseRows] : n \in 1..MaxRows}}

\* payloads of the snapshots the query side reads: the provider's null
\* "states" of an empty region, a truncated row, full rows
QueryPayloads ==
    {[states |-> StatesNull], [states |-> StatesList(<<RowShort>>)],
     [states |-> StatesList(<<RowTest, RowBlank>>)]}

\* what the get_by_callsign endpoint is asked for
QueryCallsigns == {<<"TEST123">>, <<"UAL123">>}

\* the clock of the query side stops here, and the most files a directory
\* of the query side holds
MaxQueryClock == 3
MaxQueryFiles == 2

\* the anomalies given to generate_summary: two of high and two of medium
\* severity, one of each on a flight without callsign
NoCallsign(flight) == [flight EXCEPT !.callsign = None]
SummaryAnomalies ==
    {CheckLowAltitudeHighSpeed(SampleFast)[1],
     CheckLowAltitudeHighSpeed(NoCallsign(SampleFast))[1],
     CheckHighAltitudeLowSpeed(SampleTest)[1],
     CheckHighAltitudeLowSpeed(NoCallsign(SampleTest))[1]}

\* the longest anomalies list and the longest flights list given to it
MaxSummaryAnomalies == 5
MaxSummaryFlights == 2

\* max_age_hours given to get_active_alerts
MaxAges == {0, 24, 48}

\* the hours that pass between two calls
Elapsed == {24, 25}

\* max_snapshots given to cleanup_old_snapshots
KeepCounts == {0, 1, 2}

\* the default of max_snapshots, the only cap on snapshots in the code
DefaultMaxSnapshots == 100

\* most fetch_region calls of a fetcher that is left running
MaxRetentionCycles == 101

\* the provider answers a region where nothing flies
QuietResponse == [outcome |-> "ok", data |-> Some([states |-> StatesList(<<>>)])]

\* most snapshot files and most alert files in a store
MaxStored == 3
MaxAlerts == 2

\* latest clock reading of a store that saves snapshots, and of a store
\* whose alerts age
MaxSnapshotClock == 3
MaxAlertClock == 50

\* most fetch_region calls in one behaviour
MaxCycles == 2

----------------------------------------------------------------------------
(* State machine *)

NoFault == [op |-> "none", index |-> 0]
NoRequest ==
    [region |-> <<>>, outcome |-> "none", data |-> None, fault |-> NoFault, sent |-> 0]
LoopStart == [iteration |-> 0, index |-> 1, aborted |-> FALSE, ran |-> <<>>]
NoCall == [op |-> "none"]
NoReply == [raised |-> None, value |-> None]
NoResult == [raised |-> None, success |-> FALSE, error |-> None, status_code |-> None,
             region |-> None, timestamp |-> None, total_flights |-> None,
             anomalies |-> None]

\* the state after construction, with first_call waiting to be made
Start(first_call) ==
    /\ previous_states = EmptyDict
    /\ flights = <<>>
    /\ anomalies = <<>>
    /\ snapshots = EmptyDict
    /\ alerts = EmptyDict
    /\ now = 0
    /\ request = NoRequest
    /\ result = NoResult
    /\ cycles = 0
    /\ loop = LoopStart
    /\ call = first_call
    /\ reply = NoReply
    /\ writing = {}
    /\ running = <<>>

Init == Start(NoCall)

\* a body waits to be given to _parse_flights
InitParse ==
    \E opensky_data \in ParseInputs :
        Start([op |-> "waiting", opensky_data |-> opensky_data, runs |-> 0])

\* flights, anomalies and a region name wait to be given to generate_summary
InitSummary ==
    \E n \in 0..MaxSummaryFlights, k \in 0..MaxSummaryAnomalies :
        \E all_anomalies \in [1..k -> SummaryAnomalies] :
            Start([op |-> "waiting", flights |-> [i \in 1..n |-> SampleBatch[i]],
                   anomalies |-> all_anomalies,
                   region_name |-> <<"Test", " ", "Region">>])

\* detector.detect_anomalies(batch)
Detect(batch) ==
    /\ LET r == DetectAnomalies(batch, previous_states)
       IN /\ previous_states' = r.previous_states
          /\ anomalies' = r.anomalies
    /\ flights' = batch
    /\ UNCHANGED <<storeVars, fetcherVars, loopVars, callVars, diskVars>>

\* the state of the process as the operators of a call thread it
Process ==
    [snapshots |-> snapshots, alerts |-> alerts, now |-> now,
     previous_states |-> previous_states, flights |-> flights,
     anomalies |-> anomalies, reads |-> 0, faulted |-> FALSE, requests |-> 0]

\* the anomalies and clock reads of a call that meets no storage failure
DryRun(region_name, response) ==
    FetchRegionCall(Process, region_name, response, <<>>, NoFault).S

\* the storage failures a call can meet: none, open() failing in
\* save_snapshot, open() failing in the save_alert of its index-th anomaly
FaultsAfter(dry) ==
    {NoFault}
    \cup (IF dry.reads > 0
          THEN {[op |-> "snapshot", index |-> 0]}
               \cup {[op |-> "alert", index |-> i] : i \in 1..Len(dry.anomalies)}
          ELSE {})

\* the failures a cycle of fetch_loop can meet past the provider: those of
\* the storage, and a comparison raising in detect_anomalies
LoopFaultsAfter(dry) ==
    FaultsAfter(dry)
    \cup (IF dry.reads > 0 /\ dry.flights # <<>>
          THEN {[op |-> "detect", index |-> 0]}
          ELSE {})

\* the clock reads a call makes
ReadsOf(region_name, response, fault) ==
    FetchRegionCall(Process, region_name, response, <<>>, fault).S.reads

\* fetch_region has returned r
Return(r, region_name, response, fault) ==
    /\ result' = r.result
    /\ snapshots' = r.S.snapshots
    /\ alerts' = r.S.alerts
    /\ now' = r.S.now
    /\ previous_states' = r.S.previous_states
    /\ flights' = r.S.flights
    /\ anomalies' = r.S.anomalies
    /\ request' = [region |-> region_name, outcome |-> response.outcome,
                   data |-> response.data, fault |-> fault,
                   sent |-> r.S.requests]
    /\ cycles' = cycles + 1
    /\ UNCHANGED <<callVars, diskVars>>

\* fetcher.fetch_region(region_name, bounding_box), the provider answering
\* response and the storage failing as fault says
FetchRegion(region_name, response, fault) ==
    /\ cycles < MaxCycles
    /\ UNCHANGED loopVars
    /\ \E ticks \in [1..ReadsOf(region_name, response, fault) -> {0, 1}] :
         Return(FetchRegionCall(Process, region_name, response, ticks, fault),
                region_name, response, fault)

FetchCycle ==
    \E region_name \in Regions, response \in Responses :
        \E fault \in FaultsAfter(DryRun(region_name, response)) :
            FetchRegion(region_name, response, fault)

\* region_configs of fetch_loop, in the order of its items()
RegionConfigs == <<<<"USA">>, <<"USA", "_", "East_Coast">>>>

\* what the provider answers to the cycles of fetch_loop
LoopResponses ==
    {[outcome |-> "timeout", data |-> None],
     [outcome |-> "rate_limited", data |-> None],
     [outcome |-> "ok", data |-> Some([states |-> StatesNull])],
     [outcome |-> "ok", data |-> Some([states |-> StatesList(<<RowHover>>)])]}

\* most iterations of the while True of fetch_loop in one behaviour
MaxIterations == 2

\* a fetch_loop that gives up when a cycle does not succeed
LoopAdvanceStopOnFailure(l, region_name, r) ==
    [iteration |-> l.iteration,
     index |-> l.index,
     aborted |-> TRUE,
     ran |-> (IF l.index = 1 THEN <<>> ELSE l.ran)
             \o <<[region |-> region_name, success |-> r.success]>>]

\* a fetch_loop that breaks out of the for loop when a cycle does not
\* succeed, and starts the next iteration
LoopAdvanceBreakOnFailure(l, region_name, r) ==
    [iteration |-> IF l.index = Len(RegionConfigs) \/ ~r.success
                   THEN l.iteration + 1 ELSE l.iteration,
     index |-> IF l.index = Len(RegionConfigs) \/ ~r.success THEN 1 ELSE l.index + 1,
     aborted |-> FALSE,
     ran |-> (IF l.index = 1 THEN <<>> ELSE l.ran)
             \o <<[region |-> region_name, success |-> r.success]>>]

\* the body of "for region_name, bounding_box in region_configs.items()" once
\* fetch_region has answered r: an exception leaves fetch_loop, a dict is
\* logged (ran is the log of the iteration) and the loop goes on to the next
\* region, or to the next iteration after the last one
LoopAdvance(l, region_name, r) ==
    IF r.raised # None
    THEN [l EXCEPT !.aborted = TRUE]
    ELSE [iteration |-> IF l.index = Len(RegionConfigs)
                        THEN l.iteration + 1 ELSE l.iteration,
          index |-> IF l.index = Len(RegionConfigs) THEN 1 ELSE l.index + 1,
          aborted |-> FALSE,
          ran |-> (IF l.index = 1 THEN <<>> ELSE l.ran)
                  \o <<[region |-> region_name, success |-> r.success]>>]

LoopReturn(r, region_name, response, fault) ==
    /\ Return(r, region_name, response, fault)
    /\ loop' = LoopAdvance(loop, region_name, r.result)

\* one pass of the for loop of fetch_loop; the sleeps of lines 167 and 170
\* let the clock move between any two reads
LoopStep(region_name, response, fault) ==
    /\ ~loop.aborted
    /\ loop.iteration < MaxIterations
    /\ \E ticks \in [1..ReadsOf(region_name, response, fault) -> {1}] :
         \E r \in {FetchRegionCall(Process, region_name, response, ticks, fault)} :
             LoopReturn(r, region_name, response, fault)

FetchLoop ==
    /\ running' = running
    /\ \E response \in LoopResponses :
        \E fault \in LoopFaultsAfter(DryRun(RegionConfigs[loop.index], response)) :
            LoopStep(RegionConfigs[loop.index], response, fault)

\* fetch_loop has a next pass to make: no exception has left it, and the
\* iterations of one behaviour are not used up
LoopRuns == ~loop.aborted /\ loop.iteration < MaxIterations

\* a fetch_loop that hands the call of fetch_region to a worker and goes on
\* without waiting for it to return
EnterCycleInWorker ==
    /\ LoopRuns
    /\ running' = Append(running, loop.index)
    /\ UNCHANGED <<loop, detectorVars, storeVars, fetcherVars, callVars, diskVars>>

\* the thread of fetch_loop enters fetch_region for the region at its place
\* (line 159); it makes no other call before this one has returned
EnterCycle ==
    /\ LoopRuns
    /\ running = <<>>
    /\ running' = Append(running, loop.index)
    /\ UNCHANGED <<loop, detectorVars, storeVars, fetcherVars, callVars, diskVars>>

\* the call entered first returns: what fetch_region did, result = ... and
\* the rest of the pass of the for loop
LeaveCycle ==
    /\ running # <<>>
    /\ running' = Tail(running)
    /\ \E response \in LoopResponses :
        \E fault \in LoopFaultsAfter(DryRun(RegionConfigs[Head(running)], response)) :
            LoopStep(RegionConfigs[Head(running)], response, fault)

\* store.save_snapshot(region_name, data)
CallSaveSnapshot(region_name, data) ==
    \E tick \in {0, 1} :
        \E r \in {SaveSnapshot(Process, region_name, data, <<tick>>, FALSE)} :
            /\ Cardinality(DOMAIN r.S.snapshots) <= MaxStored
            /\ snapshots' = r.S.snapshots
            /\ now' = r.S.now
            /\ call' = [op |-> "save_snapshot", region_name |-> region_name,
                        data |-> data]
            /\ reply' = [raised |-> r.exc,
                         value |-> Some(FileName([region |-> region_name,
                                                  timestamp |-> r.S.now]))]
            /\ UNCHANGED <<alerts, detectorVars, fetcherVars, loopVars, diskVars>>

\* store.get_latest_snapshot(region_name)
CallGetLatestSnapshot(region_name) ==
    \E v \in GetLatestSnapshot(snapshots, region_name) :
        /\ call' = [op |-> "get_latest_snapshot", region_name |-> region_name]
        /\ reply' = [raised |-> None, value |-> v]
        /\ UNCHANGED <<storeVars, detectorVars, fetcherVars, loopVars, diskVars>>

\* tools.get_by_callsign(callsign)
CallGetByCallsign(callsign) ==
    \E order \in SortedByMtime(snapshots) :
        \E r \in {GetByCallsign(snapshots, order, callsign)} :
            /\ call' = [op |-> "get_by_callsign", callsign |-> callsign]
            /\ reply' = r
            /\ UNCHANGED <<storeVars, detectorVars, fetcherVars, loopVars, diskVars>>

\* tools.list_region_snapshot(region_name)
CallListRegionSnapshot(region_name) ==
    \E got \in ReadLatestSnapshot(snapshots, {}, region_name) :
        /\ call' = [op |-> "list_region_snapshot", region_name |-> region_name]
        /\ reply' = ListRegionSnapshot(got, region_name)
        /\ UNCHANGED <<storeVars, detectorVars, fetcherVars, loopVars, diskVars>>

\* GET /api/snapshot of the backend
CallGetSnapshot(region_name) ==
    \E r \in GetSnapshot(snapshots, region_name) :
        /\ call' = [op |-> "get_snapshot", region_name |-> region_name]
        /\ reply' = r
        /\ UNCHANGED <<storeVars, detectorVars, fetcherVars, loopVars, diskVars>>

\* GET /api/flight of the backend; like get_by_callsign it lists the
\* directory, here as order
CallGetFlight(callsign) ==
    \E order \in SortedByMtime(snapshots) :
        /\ call' = [op |-> "get_flight", callsign |-> callsign]
        /\ reply' = GetFlight(snapshots, order, callsign)
        /\ UNCHANGED <<storeVars, detectorVars, fetcherVars, loopVars, diskVars>>

\* store.save_alert(alert_data)
CallSaveAlert(alert_data) ==
    \E tick \in {0, 1} :
        \E r \in {SaveAlert(Process, alert_data, <<tick>>, FALSE)} :
            /\ Cardinality(DOMAIN r.S.alerts) <= MaxAlerts
            /\ alerts' = r.S.alerts
            /\ now' = r.S.now
            /\ call' = [op |-> "save_alert", alert_data |-> alert_data]
            /\ reply' = [raised |-> r.exc, value |-> Some(r.S.now)]
            /\ UNCHANGED <<snapshots, detectorVars, fetcherVars, loopVars, diskVars>>

\* store.get_active_alerts(max_age_hours), its datetime.now() reading now
CallGetActiveAlerts(max_age_hours) ==
    /\ call' = [op |-> "get_active_alerts", max_age_hours |-> max_age_hours]
    /\ reply' = [raised |-> None,
                 value |-> Some(GetActiveAlerts(alerts, now, max_age_hours))]
    /\ UNCHANGED <<storeVars, detectorVars, fetcherVars, loopVars, diskVars>>

\* store.cleanup_old_snapshots(max_snapshots); deleted is what it logs
CallCleanupOldSnapshots(max_snapshots) ==
    \E order \in SortedByMtime(snapshots) :
        /\ snapshots' = CleanupOldSnapshots(snapshots, order, max_snapshots)
        /\ call' = [op |-> "cleanup_old_snapshots", max_snapshots |-> max_snapshots]
        /\ reply' = [raised |-> None, value |-> None,
                     deleted |-> {FileName(k) :
                        k \in (DOMAIN snapshots)
                               \ DOMAIN CleanupOldSnapshots(snapshots, order,
                                                            max_snapshots)}]
        /\ UNCHANGED <<alerts, now, detectorVars, fetcherVars, loopVars, diskVars>>

\* save_snapshot(region_name, data) up to its open(filepath, 'w') of line
\* 41: the file exists and holds nothing yet; the fetcher and the server are
\* two processes over one directory
OpenSnapshot(region_name, data) ==
    \E tick \in {0, 1} :
        \E r \in {SaveSnapshot(Process, region_name, data, <<tick>>, FALSE)} :
            /\ Cardinality(DOMAIN r.S.snapshots) <= MaxQueryFiles
            /\ snapshots' = r.S.snapshots
            /\ now' = r.S.now
            /\ writing' = writing \cup {FileName([region |-> region_name,
                                                   timestamp |-> r.S.now])}
            /\ call' = NoCall
            /\ reply' = NoReply
            /\ UNCHANGED <<alerts, detectorVars, fetcherVars, loopVars>>

\* save_alert(alert_data) up to its open(filepath, 'w') of line 150
OpenAlert(alert_data) ==
    \E tick \in {0, 1} :
        \E r \in {SaveAlert(Process, alert_data, <<tick>>, FALSE)} :
            /\ Cardinality(DOMAIN r.S.alerts) <= MaxQueryFiles
            /\ alerts' = r.S.alerts
            /\ now' = r.S.now
            /\ writing' = writing \cup {AlertFileName(r.S.now)}
            /\ call' = NoCall
            /\ reply' = NoReply
            /\ UNCHANGED <<snapshots, detectorVars, fetcherVars, loopVars>>

\* the json.dump of line 42 or 151 is done and the file is closed
CloseFile(name) ==
    /\ name \in writing
    /\ writing' = writing \ {name}
    /\ call' = NoCall
    /\ reply' = NoReply
    /\ UNCHANGED <<storeVars, detectorVars, fetcherVars, loopVars>>

\* POST /tools/flights/list_region_snapshot
PostListRegionSnapshot(region_name) ==
    \E got \in ReadLatestSnapshot(snapshots, writing, region_name) :
        /\ call' = [op |-> "list_region_snapshot", region_name |-> region_name]
        /\ reply' = Endpoint(ListRegionSnapshot(got, region_name))
        /\ UNCHANGED <<storeVars, detectorVars, fetcherVars, loopVars, diskVars>>

\* POST /tools/flights/get_by_callsign
PostGetByCallsign(callsign) ==
    \E order \in SortedByMtime(snapshots) :
        \E r \in {ReadByCallsign(snapshots, writing, order, callsign)} :
            /\ call' = [op |-> "get_by_callsign", callsign |-> callsign]
            /\ reply' = Endpoint(r)
            /\ UNCHANGED <<storeVars, detectorVars, fetcherVars, loopVars, diskVars>>

\* POST /tools/alerts/list_active, the datetime.now() of line 160 reading now
PostListActiveAlerts(max_age_hours) ==
    /\ call' = [op |-> "list_active_alerts", max_age_hours |-> max_age_hours]
    /\ reply' = Endpoint(ListActiveAlerts(
                    ReadActiveAlerts(alerts, writing, now, max_age_hours)))
    /\ UNCHANGED <<storeVars, detectorVars, fetcherVars, loopVars, diskVars>>

\* detector.generate_summary(flights, anomalies, region_name) on what waits
CallGenerateSummary ==
    /\ call.op = "waiting"
    /\ call' = [call EXCEPT !.op = "generate_summary"]
    /\ reply' = [raised |-> None,
                 value |-> Some(GenerateSummary(call.flights, call.anomalies,
                                                call.region_name))]
    /\ UNCHANGED <<storeVars, detectorVars, fetcherVars, loopVars, diskVars>>

\* fetcher._parse_flights(opensky_data) on the body that waits, and again on
\* the same body
CallParseFlights ==
    /\ call.runs < MaxRuns
    /\ call' = [call EXCEPT !.op = "_parse_flights", !.runs = @ + 1]
    /\ reply' = [raised |-> None, value |-> Some(ParseFlights(call.opensky_data))]
    /\ UNCHANGED <<storeVars, detectorVars, fetcherVars, loopVars, diskVars>>

\* time passes between two calls
Elapse(hours) ==
    /\ now' = now + hours
    /\ call' = NoCall
    /\ reply' = NoReply
    /\ UNCHANGED <<snapshots, alerts, detectorVars, fetcherVars, loopVars, diskVars>>

SaveSnapshots ==
    \E region_name \in Regions, data \in StorePayloads :
        CallSaveSnapshot(region_name, data)

SaveAlerts == \E alert_data \in AlertInputs : CallSaveAlert(alert_data)

\* a store that is written to and searched
SnapshotCalls ==
    /\ \/ SaveSnapshots
       \/ \E region_name \in Regions : CallGetLatestSnapshot(region_name)
       \/ \E callsign \in Queries : CallGetByCallsign(callsign)
    /\ now' <= MaxSnapshotClock

\* a store that is written to and read through the tools and the backend
FrontEndCalls ==
    /\ \/ SaveSnapshots
       \/ \E region_name \in Regions : CallGetLatestSnapshot(region_name)
       \/ \E region_name \in Regions : CallListRegionSnapshot(region_name)
       \/ \E region_name \in Regions : CallGetSnapshot(region_name)
       \/ \E callsign \in Queries : CallGetByCallsign(callsign)
       \/ \E callsign \in Queries : CallGetFlight(callsign)
    /\ now' <= MaxSnapshotClock

\* a store that is written to and pruned
PruneCalls ==
    /\ \/ \E region_name \in Regions :
             CallSaveSnapshot(region_name, [states |-> StatesList(<<RowTest>>)])
       \/ CallSaveAlert(AlertData(<<"USA">>, CheckHighAltitudeLowSpeed(SampleTest)[1]))
       \/ \E max_snapshots \in KeepCounts : CallCleanupOldSnapshots(max_snapshots)
    /\ now' <= MaxSnapshotClock

\* a store whose alerts are saved, age and are listed
AlertCalls ==
    /\ \/ SaveAlerts
       \/ \E max_age_hours \in MaxAges : CallGetActiveAlerts(max_age_hours)
       \/ \E hours \in Elapsed : Elapse(hours)
    /\ now' <= MaxAlertClock

\* fetch_region of a fetcher that is left running over a quiet region
RetentionCycle ==
    /\ cycles < MaxRetentionCycles
    /\ UNCHANGED loopVars
    /\ \E ticks \in [1..ReadsOf(<<"USA">>, QuietResponse, NoFault) -> {0, 1}] :
         \E r \in {FetchRegionCall(Process, <<"USA">>, QuietResponse, ticks, NoFault)} :
             Return(r, <<"USA">>, QuietResponse, NoFault)

\* the server answers queries while the fetcher writes
QueryCalls ==
    /\ \/ \E region_name \in Regions, data \in QueryPayloads :
             OpenSnapshot(region_name, data)
       \/ OpenAlert(AlertData(<<"USA">>, CheckHighAltitudeLowSpeed(SampleTest)[1]))
       \/ \E name \in writing : CloseFile(name)
       \/ \E region_name \in Regions : PostListRegionSnapshot(region_name)
       \/ \E callsign \in QueryCallsigns : PostGetByCallsign(callsign)
       \/ \E max_age_hours \in {0, 1} : PostListActiveAlerts(max_age_hours)
    /\ now' <= MaxQueryClock

DetectRules == \E batch \in RuleBatches : Detect(batch)

DetectTrack == \E batch \in TrackBatches : Detect(batch)

\* the detector on the inputs of the rule bank
SpecRules == Init /\ [][DetectRules]_vars

\* the detector on the inputs of the history cursor
SpecTrack == Init /\ [][DetectTrack]_vars

\* ingest cycles of the fetcher on one store
SpecIngest == Init /\ [][FetchCycle]_vars

\* the snapshot side of the DataStore and the search of the MCP tools
SpecSnapshots == Init /\ [][SnapshotCalls]_vars

\* the DataStore under save_snapshot, save_alert and cleanup_old_snapshots
SpecPrune == Init /\ [][PruneCalls]_vars

\* the alert side of the DataStore
SpecAlerts == Init /\ [][AlertCalls]_vars

\* a fetcher left running
SpecRetention == Init /\ [][RetentionCycle]_vars

\* fetch_loop over RegionConfigs
SpecLoop == Init /\ [][FetchLoop]_vars

\* fetch_loop in a process that is scheduled: its thread runs on through the
\* sleeps of lines 167 and 170, so a pass that can be made is made. This is
\* weak fairness of FetchLoop, which is enabled exactly when LoopRuns (every
\* provider answer is possible at every pass) and changes vars at every step
SpecLoopFair ==
    Init /\ [][FetchLoop]_vars /\ ([]<>(~LoopRuns) \/ []<><<TRUE>>_vars)

\* the MCP server over a store that is being written
SpecQuery == Init /\ [][QueryCalls]_vars

\* the reads of the tools and of the backend over one store
SpecFrontEnds == Init /\ [][FrontEndCalls]_vars

\* fetch_loop, the entry and the return of each fetch_region call apart
Scheduler == EnterCycle \/ LeaveCycle
SpecScheduler == Init /\ [][Scheduler]_vars

\* generate_summary over SummaryAnomalies
SpecSummary == InitSummary /\ [][CallGenerateSummary]_vars

\* _parse_flights over ParseInputs
SpecParse == InitParse /\ [][CallParseFlights]_vars

----------------------------------------------------------------------------
(* Properties of the anomaly detector *)

\* the anomalies of list as whose anomaly_type is type
OfType(as, type) == {i \in 1..Len(as) : as[i].anomaly_type = type}

\* the rule bank as section 4.3 states it: presence is "not None"
Rule2Holds(f) ==
    /\ f.altitude # None /\ f.velocity # None
    /\ Val(f.altitude) > 8000 /\ Val(f.velocity) < 100
Rule3Holds(f) == f.altitude # None /\ Val(f.altitude) > 15000
Rule4Holds(f) ==
    /\ f.altitude # None /\ f.velocity # None
    /\ Val(f.altitude) < 3000 /\ Val(f.velocity) > 600
Rule5Holds(f) == f.vertical_rate # None /\ Abs(Val(f.vertical_rate)) > 20
Rule6Holds(f) == f.velocity # None /\ Val(f.velocity) > 1000

\* record p is a record of the aircraft of f, with a known position within
\* 0.01 degree of the known position of f in latitude and in longitude
PriorNear(p, f) ==
    /\ p.icao24 = f.icao24
    /\ p.latitude # None /\ p.longitude # None
    /\ f.latitude # None /\ f.longitude # None
    /\ Abs(Val(f.latitude) - Val(p.latitude)) < 10
    /\ Abs(Val(f.longitude) - Val(p.longitude)) < 10

\* C1: a flight with on_ground = true yields no anomaly, whatever its other
\* fields and whatever the cursor holds, and leaves the cursor as it was: a
\* call on ground flights only returns nothing and changes no cursor entry,
\* no returned anomaly carries a ground flight, and no cursor entry is ever
\* set to a ground flight.
C1_GroundSkip ==
    [][/\ (\A i \in 1..Len(flights') : flights'[i].on_ground)
            => (anomalies' = <<>> /\ previous_states' = previous_states)
       /\ \A i \in 1..Len(anomalies') : ~anomalies'[i].flight.on_ground
       /\ \A k \in DOMAIN previous_states' :
            previous_states'[k].on_ground
                => (k \in DOMAIN previous_states
                    /\ previous_states[k] = previous_states'[k])]_vars

\* C1 witness: a ground flight at 16000 m with velocity 0 and a vertical rate
\* of 25 m/s was checked against a cursor that holds a record under its key
C1_Witness ==
    /\ flights = <<Grounded>>
    /\ anomalies = <<>>
    /\ CallsignOf(Grounded) \in DOMAIN previous_states

\* C2: stationary_in_air is emitted for a flight only when the cursor already
\* holds a prior record of that flight (the same identifier) whose latitude
\* and longitude each differ from the current ones by less than 0.01; so the
\* first record ever seen of an aircraft never emits it.
C2_HistoryGating ==
    [][Len(flights') = 1
        => \A i \in OfType(anomalies', "stationary_in_air") :
             \E k \in DOMAIN previous_states :
                PriorNear(previous_states[k], anomalies'[i].flight)]_vars

\* C3: for an airborne flight rules 2-6 fire exactly when their stated
\* conditions hold, a present 0 being compared like any other value, each
\* with its severity.
C3_RuleConditions ==
    (Len(flights) = 1 /\ ~flights[1].on_ground) =>
        LET f == flights[1]
            Fires(type, severity) ==
                \E i \in OfType(anomalies, type) : anomalies[i].severity = severity
        IN /\ Fires("high_altitude_low_speed", "medium") <=> Rule2Holds(f)
           /\ Fires("excessive_altitude", "high") <=> Rule3Holds(f)
           /\ Fires("low_altitude_high_speed", "high") <=> Rule4Holds(f)
           /\ Fires("rapid_vertical_movement", "medium") <=> Rule5Holds(f)
           /\ Fires("excessive_speed", "medium") <=> Rule6Holds(f)

\* C4: stationary_in_air (high) is emitted for an airborne flight exactly when
\* its velocity is present and < 50, the cursor holds a previous record of
\* this identifier, both records have latitude and longitude present (0
\* counts as present) and both differ by less than 0.01.
C4_StationaryIff ==
    [][(Len(flights') = 1 /\ ~flights'[1].on_ground) =>
        LET f == flights'[1]
        IN (\E i \in OfType(anomalies', "stationary_in_air") :
                anomalies'[i].severity = "high")
           <=> (/\ f.velocity # None /\ Val(f.velocity) < 50
                /\ \E k \in DOMAIN previous_states :
                      PriorNear(previous_states[k], f))]_vars

\* C5: a single airborne flight yields one anomaly for every rule whose
\* condition holds: each of rules 2-6 whose condition holds contributes
\* exactly one anomaly of its type, so altitude 16000 with velocity 80 yields
\* both high_altitude_low_speed and excessive_altitude.
C5_RuleIndependence ==
    (Len(flights) = 1 /\ ~flights[1].on_ground) =>
        LET f == flights[1]
            One(type) == Cardinality(OfType(anomalies, type)) = 1
        IN /\ Rule2Holds(f) => One("high_altitude_low_speed")
           /\ Rule3Holds(f) => One("excessive_altitude")
           /\ Rule4Holds(f) => One("low_altitude_high_speed")
           /\ Rule5Holds(f) => One("rapid_vertical_movement")
           /\ Rule6Holds(f) => One("excessive_speed")

\* C6: on a fresh engine the sample batch yields exactly two anomalies: one
\* high_altitude_low_speed (medium) for abc123/TEST123, one
\* low_altitude_high_speed (high) for ghi789/FAST123, none for the flight at
\* 10000 m and 450 km/h.
C6_SampleBatch ==
    [][(previous_states = EmptyDict /\ flights' = SampleBatch) =>
        /\ Len(anomalies') = 2
        /\ anomalies'[1].flight = SampleTest
        /\ anomalies'[1].anomaly_type = "high_altitude_low_speed"
        /\ anomalies'[1].severity = "medium"
        /\ anomalies'[2].flight = SampleFast
        /\ anomalies'[2].anomaly_type = "low_altitude_high_speed"
        /\ anomalies'[2].severity = "high"]_vars

\* C6 witness: the sample batch was the first batch that met an empty cursor
C6_Witness ==
    /\ flights = SampleBatch
    /\ previous_states = EmptyDict
    /\ Len(anomalies) = 2

----------------------------------------------------------------------------
(* Properties of the ingest cycle *)

\* alert a is the stored form of anomaly x of a cycle on region_name
AlertOf(a, x, region_name) ==
    /\ a.region = region_name
    /\ a.icao24 = x.flight.icao24
    /\ a.callsign = x.flight.callsign
    /\ a.anomaly_type = x.anomaly_type
    /\ a.severity = x.severity
    /\ a.description = x.description
    /\ a.flight_data = x.flight

\* C7: whenever the provider answers with a successful response (and the
\* storage does not fail), the cycle reports success and has written one
\* snapshot of the region holding the raw payload, and no other file: also
\* when "states" is empty, missing or null.
C7_SnapshotUnconditional ==
    [][(request'.outcome = "ok" /\ request'.fault = NoFault) =>
        /\ result'.success
        /\ \E f \in DOMAIN snapshots' :
            /\ f.region = request'.region
            /\ snapshots'[f].content.data = Val(request'.data)
            /\ \A g \in (DOMAIN snapshots') \ {f} :
                  g \in DOMAIN snapshots /\ snapshots'[g] = snapshots[g]]_vars

\* C8: after a successful cycle the number of alerts the cycle added to the
\* store is the 'anomalies' count of its result, and every anomaly has its
\* own stored alert with its region, identifier, callsign, type, severity,
\* description and flight record.
C8_AlertPerAnomaly ==
    [][result'.success =>
        /\ Cardinality(DOMAIN alerts') - Cardinality(DOMAIN alerts)
              = Val(result'.anomalies)
        /\ Val(result'.anomalies) = Len(anomalies')
        /\ \A i \in 1..Len(anomalies') :
              \E id \in DOMAIN alerts' :
                  AlertOf(alerts'[id], anomalies'[i], request'.region)]_vars

\* C9: when save_alert fails for one anomaly of a cycle, the cycle still
\* stores the alerts of all the other anomalies of the batch and reports
\* success.
C9_AlertFailureNotFatal ==
    [][request'.fault.op = "alert" =>
        /\ result'.success
        /\ \A i \in (1..Len(anomalies')) \ {request'.fault.index} :
              \E id \in DOMAIN alerts' :
                  AlertOf(alerts'[id], anomalies'[i], request'.region)]_vars

\* C10: fetch_region never raises: whatever the provider answers and whatever
\* the storage does it returns a dict; after HTTP 429, a timeout, a
\* connection or HTTP error, an unparsable body or a storage failure the dict
\* has success false and an error, and status_code 429 marks exactly the
\* rate-limited answer.
C10_NeverRaises ==
    /\ result.raised = None
    /\ request.outcome # "none" => (result.success \/ result.error # None)
    /\ (request.outcome \in FailureOutcomes \/ request.fault # NoFault)
          => (~result.success /\ result.error # None)
    /\ request.outcome = "rate_limited" <=> result.status_code = Some(429)

\* C10 witness: open() failed while the second alert of a cycle was saved,
\* and the call returned that error
C10_Witness ==
    /\ request.fault = [op |-> "alert", index |-> 2]
    /\ result.raised = None
    /\ ~result.success
    /\ result.error = Some("OSError")

\* C11: a cycle that ends rate limited, timed out or failed at the provider
\* (connection error, HTTP error, unparsable body) writes no snapshot and no
\* alert and leaves the history cursor as it was.
C11_AbortWithoutEffect ==
    [][request'.outcome \in FailureOutcomes =>
        /\ snapshots' = snapshots
        /\ alerts' = alerts
        /\ previous_states' = previous_states]_vars

\* C11 witness: the provider answered an HTTP error to a fetcher whose store
\* holds a snapshot and whose cursor holds a record
C11_Witness ==
    /\ request.outcome = "http_error"
    /\ ~result.success
    /\ DOMAIN snapshots # {}
    /\ DOMAIN previous_states # {}

\* the log of the iteration names the first regions of region_configs
LoopLogged ==
    /\ Len(loop.ran) = (IF loop.index = 1
                        THEN (IF loop.iteration = 0 THEN 0 ELSE Len(RegionConfigs))
                        ELSE loop.index - 1)
    /\ \A i \in 1..Len(loop.ran) : loop.ran[i].region = RegionConfigs[i]

\* C12: a failure inside one region's cycle (provider, storage or detection)
\* never leaves fetch_loop: every step of the loop, whatever its cycle
\* returned, has run the cycle of the region the loop stood at, leaves the
\* loop running and standing at the next configured region, so every
\* iteration runs one cycle for every configured region, in order.
C12_FailureContainment ==
    [][/\ request'.region = RegionConfigs[loop.index]
       /\ ~loop'.aborted
       /\ loop'.index = (loop.index % Len(RegionConfigs)) + 1
       /\ LoopLogged']_vars

\* C12 witness: the cycle of the first region failed and the cycle of the
\* second region ran, and succeeded, in the same iteration
C12_Witness ==
    /\ loop.index = 1
    /\ Len(loop.ran) = 2
    /\ ~loop.ran[1].success
    /\ loop.ran[2].success
    /\ request.region = RegionConfigs[2]

----------------------------------------------------------------------------
(* Properties of the data store *)

\* the stored snapshots of region region_name
SnapshotsOf(files, region_name) == {k \in DOMAIN files : k.region = region_name}

\* C13: save_snapshot never overwrites an existing key: when a snapshot of
\* the same region and timestamp is already stored the call fails with a
\* conflict error and the store is unchanged; otherwise it adds exactly one
\* snapshot, with the data given, and changes no other record.
C13_NoOverwrite ==
    [][call'.op = "save_snapshot" =>
        IF [region |-> call'.region_name, timestamp |-> now'] \in DOMAIN snapshots
        THEN reply'.raised = Some("ConflictError") /\ snapshots' = snapshots
        ELSE /\ reply'.raised = None
             /\ DOMAIN snapshots'
                  = (DOMAIN snapshots)
                    \cup {[region |-> call'.region_name, timestamp |-> now']}
             /\ \A k \in DOMAIN snapshots : snapshots'[k] = snapshots[k]
             /\ snapshots'[[region |-> call'.region_name, timestamp |-> now']]
                    .content.data = call'.data]_vars

\* C14: get_latest_snapshot(region) returns the stored snapshot of that
\* region with the greatest timestamp, and None exactly when no snapshot of
\* that region is stored.
C14_FreshnessOrdering ==
    [][call'.op = "get_latest_snapshot" =>
        IF SnapshotsOf(snapshots, call'.region_name) = {}
        THEN reply'.value = None
        ELSE \E k \in SnapshotsOf(snapshots, call'.region_name) :
                /\ \A j \in SnapshotsOf(snapshots, call'.region_name) :
                      j.timestamp <= k.timestamp
                /\ reply'.value = Some(snapshots[k].content)]_vars

\* row state matches query by its trimmed callsign or by its identifier
RowMatches(state, query) ==
    \/ state[1] = query
    \/ (state[2] # None /\ Strip(Val(state[2])) = Strip(query))

\* snapshot file k holds a row that matches query
HoldsMatch(files, k, query) ==
    /\ files[k].content.data.states # None
    /\ Val(files[k].content.data.states) # None
    /\ \E i \in DOMAIN Val(Val(files[k].content.data.states)) :
          RowMatches(Val(Val(files[k].content.data.states))[i], query)

\* C15: the search of get_by_callsign goes through the most recently written
\* snapshots newest first and the first match wins: the record it returns
\* comes from a snapshot that holds a row matching the query by callsign or
\* by identifier and that no snapshot holding such a row is newer than, and
\* it finds nothing only when no scanned snapshot holds such a row.
C15_FirstMatchWins ==
    [][(call'.op = "get_by_callsign" /\ reply'.raised = None) =>
        IF Val(reply'.value).success
        THEN \E k \in DOMAIN snapshots :
                /\ k.region = Val(Val(reply'.value).flight).region
                /\ k.timestamp = Val(Val(reply'.value).flight).timestamp
                /\ HoldsMatch(snapshots, k, call'.callsign)
                /\ \A j \in DOMAIN snapshots :
                      HoldsMatch(snapshots, j, call'.callsign)
                          => snapshots[j].mtime <= snapshots[k].mtime
        ELSE \A k \in DOMAIN snapshots : ~HoldsMatch(snapshots, k, call'.callsign)]_vars

\* case folding of a string of symbols
CaseFold(s) ==
    [i \in DOMAIN s |->
        CASE s[i] = "test123" -> "TEST123"
          [] s[i] = "abc123" -> "ABC123"
          [] s[i] = "def456" -> "DEF456"
          [] OTHER -> s[i]]

\* row state matches query by trimmed callsign or identifier, letter case aside
RowMatchesFolded(state, query) ==
    \/ CaseFold(state[1]) = CaseFold(query)
    \/ (state[2] # None /\ CaseFold(Strip(Val(state[2]))) = CaseFold(Strip(query)))

\* C16: the search of get_by_callsign is case-insensitive: it finds a flight
\* exactly when a stored row has a trimmed callsign or an identifier equal to
\* the query after case folding, and the flight it returns is such a row.
C16_CaseInsensitive ==
    [][(call'.op = "get_by_callsign" /\ reply'.raised = None) =>
        /\ Val(reply'.value).success
             <=> \E k \in DOMAIN snapshots :
                    \E i \in DOMAIN Val(Val(snapshots[k].content.data.states)) :
                        RowMatchesFolded(Val(Val(snapshots[k].content.data.states))[i],
                                         call'.callsign)
        /\ Val(reply'.value).success =>
              \/ CaseFold(Val(Val(reply'.value).flight).icao24)
                    = CaseFold(call'.callsign)
              \/ CaseFold(Val(Val(Val(reply'.value).flight).callsign))
                    = CaseFold(Strip(call'.callsign))]_vars

\* C17: save_alert returns an id that no stored alert has, adds exactly one
\* alert and leaves every alert saved before stored with its content, also
\* when several calls read the same clock value.
C17_UniqueAlertId ==
    [][(call'.op = "save_alert" /\ reply'.raised = None) =>
        /\ Val(reply'.value) \notin DOMAIN alerts
        /\ Cardinality(DOMAIN alerts') = Cardinality(DOMAIN alerts) + 1
        /\ \A id \in DOMAIN alerts :
              id \in DOMAIN alerts' /\ alerts'[id] = alerts[id]]_vars

\* the alerts of list as
Listed(as) == {as[i] : i \in DOMAIN as}

\* C18: get_active_alerts(max_age) returns exactly the stored alerts whose
\* timestamp is >= now - max_age, each once, most recent first; and at any
\* moment the result for a is contained in the result for b when a <= b.
C18_AlertWindow ==
    [][call'.op = "get_active_alerts" =>
        /\ Listed(Val(reply'.value))
             = {alerts[a] : a \in {x \in DOMAIN alerts :
                    alerts[x].timestamp >= now' - call'.max_age_hours}}
        /\ Len(Val(reply'.value)) = Cardinality(Listed(Val(reply'.value)))
        /\ \A i, j \in DOMAIN Val(reply'.value) :
              i < j => Val(reply'.value)[i].timestamp > Val(reply'.value)[j].timestamp
        /\ \A a, b \in MaxAges :
              a <= b => Listed(GetActiveAlerts(alerts, now', a))
                          \subseteq Listed(GetActiveAlerts(alerts, now', b))]_vars

\* C18 witness: with max_age_hours = 24 an alert created 25 hours ago is left
\* out and a newer one is listed
C18_Witness ==
    /\ call.op = "get_active_alerts"
    /\ call.max_age_hours = 24
    /\ Len(Val(reply.value)) = 1
    /\ \E a \in DOMAIN alerts :
          /\ alerts[a].timestamp = now - 25
          /\ alerts[a] \notin Listed(Val(reply.value))

\* C19: cleanup_old_snapshots(keep) leaves min(keep, previous count)
\* snapshots, none of them older than a deleted one, with their content
\* unchanged, touches no alert, and changes nothing when no more than keep
\* snapshots are stored.
C19_PruneKeepsNewest ==
    [][call'.op = "cleanup_old_snapshots" =>
        /\ Cardinality(DOMAIN snapshots')
             = (IF call'.max_snapshots < Cardinality(DOMAIN snapshots)
                THEN call'.max_snapshots ELSE Cardinality(DOMAIN snapshots))
        /\ DOMAIN snapshots' \subseteq DOMAIN snapshots
        /\ \A k \in DOMAIN snapshots' : snapshots'[k] = snapshots[k]
        /\ \A k \in DOMAIN snapshots' :
              \A j \in (DOMAIN snapshots) \ DOMAIN snapshots' :
                  snapshots[j].mtime <= snapshots[k].mtime
        /\ alerts' = alerts
        /\ Cardinality(DOMAIN snapshots) <= call'.max_snapshots
              => snapshots' = snapshots]_vars

\* C19 witness: cleanup_old_snapshots(1) deleted two of three snapshots in a
\* store that also holds an alert
C19_Witness ==
    /\ call.op = "cleanup_old_snapshots"
    /\ call.max_snapshots = 1
    /\ Cardinality(reply.deleted) = 2
    /\ Cardinality(DOMAIN snapshots) = 1
    /\ DOMAIN alerts # {}

\* C20: snapshots are retained up to a cap, the oldest evicted first: after
\* any sequence of ingest cycles the number of stored snapshots does not
\* exceed the cap (max_snapshots, 100 by default).
C20_SnapshotCap == Cardinality(DOMAIN snapshots) <= DefaultMaxSnapshots

----------------------------------------------------------------------------
(* Properties of the normalisation *)

\* the rows of a body, none when "states" is missing or null
RowsOf(opensky_data) ==
    IF opensky_data.states # None /\ Val(opensky_data.states) # None
    THEN Val(Val(opensky_data.states)) ELSE <<>>

HasTwelve(state) == Len(state) >= 12

\* C21: _parse_flights returns one record for each row of at least 12 fields
\* and none for the others, in the order of the rows, without raising; the
\* record holds fields 0, 2, 5, 6, 7, 8, 9, 10, 11 of its row as icao24,
\* origin_country, longitude, latitude, altitude, on_ground, velocity,
\* heading, vertical_rate and the trimmed field 1 as callsign; the same body
\* given again yields the same list.
C21_Normalize ==
    [][call'.op = "_parse_flights" =>
        /\ reply'.raised = None
        /\ Len(Val(reply'.value))
              = Len(SelectSeq(RowsOf(call'.opensky_data), HasTwelve))
        /\ \A i \in 1..Len(Val(reply'.value)) :
             LET row == SelectSeq(RowsOf(call'.opensky_data), HasTwelve)[i]
                 out == Val(reply'.value)[i]
             IN /\ out.icao24 = row[1]
                /\ (row[2] # None /\ Strip(Val(row[2])) # <<>>)
                      => out.callsign = Some(Strip(Val(row[2])))
                /\ out.origin_country = row[3]
                /\ out.longitude = row[6]
                /\ out.latitude = row[7]
                /\ out.altitude = row[8]
                /\ out.on_ground = row[9]
                /\ out.velocity = row[10]
                /\ out.heading = row[11]
                /\ out.vertical_rate = row[12]
        /\ call.op = "_parse_flights" => reply' = reply]_vars

\* a body of a short row followed by two full rows has been normalised to the
\* two records of the full rows
C21_Witness ==
    /\ call.op = "_parse_flights"
    /\ call.opensky_data.states = StatesList(<<RowShort, RowTest, RowLong>>)
    /\ Len(Val(reply.value)) = 2
    /\ Val(reply.value)[1].icao24 = <<"abc123">>
    /\ Val(reply.value)[2].icao24 = <<"def456">>

\* C22: the callsign of a normalised record is the trimmed callsign of its
\* row, and it is absent (None), never the empty string, when the row's
\* callsign is missing, empty or made of whitespace only.
C22_CallsignAbsent ==
    call.op = "_parse_flights" =>
        \A i \in 1..Len(Val(reply.value)) :
            LET row == SelectSeq(RowsOf(call.opensky_data), HasTwelve)[i]
                out == Val(reply.value)[i]
            IN /\ out.callsign # Some(<<>>)
               /\ (row[2] = None \/ Strip(Val(row[2])) = <<>>) <=> out.callsign = None
               /\ out.callsign # None => out.callsign = Some(Strip(Val(row[2])))

----------------------------------------------------------------------------
(* Properties of the query side *)

\* the alerts of the window of max_age_hours at the time of the clock
InWindow(max_age_hours) ==
    {a \in DOMAIN alerts : alerts[a].timestamp >= now - max_age_hours}

\* C23: on a store whose files are all written out, get_by_callsign answers
\* success false with an error when no stored snapshot holds a row matching
\* the query, list_region_snapshot answers success false with an empty
\* flights list when no snapshot of the region is stored, and
\* list_active_alerts answers success true with total_alerts 0 when no
\* stored alert is in the window.
C23_NotFoundIsStructured ==
    writing = {} =>
        /\ (/\ call.op = "get_by_callsign"
            /\ \A k \in DOMAIN snapshots : ~HoldsMatch(snapshots, k, call.callsign))
              => /\ reply.raised = None
                 /\ ~Val(reply.value).success
                 /\ Val(reply.value).error # None
        /\ (/\ call.op = "list_region_snapshot"
            /\ SnapshotsOf(snapshots, call.region_name) = {})
              => /\ reply.raised = None
                 /\ ~Val(reply.value).success
                 /\ Val(reply.value).flights = <<>>
        /\ (/\ call.op = "list_active_alerts"
            /\ InWindow(call.max_age_hours) = {})
              => /\ reply.raised = None
                 /\ Val(reply.value).success
                 /\ Val(reply.value).total_alerts = 0

\* C24: whatever the store holds (a row of fewer than 12 fields, a snapshot
\* whose "states" is null, a file that is not written out yet), each of the
\* three queries answers with a dict that has a success field, and raises
\* nothing.
C24_QueriesNeverRaise ==
    call.op \in {"list_region_snapshot", "get_by_callsign", "list_active_alerts"}
        => /\ reply.raised = None
           /\ reply.value # None
           /\ Val(reply.value).success \in BOOLEAN

\* C25: an unreadable file is passed over by the queries: list_active_alerts
\* lists every readable alert of the window, get_by_callsign finds a flight
\* that a readable snapshot holds as a full row, and list_region_snapshot
\* does not raise.
C25_MalformedSkipped ==
    writing # {} =>
        /\ call.op = "list_active_alerts"
              => /\ reply.raised = None
                 /\ Listed(Val(reply.value).alerts)
                      = {alerts[a] : a \in {b \in InWindow(call.max_age_hours) :
                                               AlertFileName(b) \notin writing}}
        /\ (/\ call.op = "get_by_callsign"
            /\ \E k \in DOMAIN snapshots :
                  /\ FileName(k) \notin writing
                  /\ snapshots[k].content.data.states
                        = StatesList(<<RowTest, RowBlank>>)
                  /\ call.callsign = <<"TEST123">>)
              => /\ reply.raised = None
                 /\ Val(reply.value).success
        /\ call.op = "list_region_snapshot" => reply.raised = None

\* C26: on a store whose files are all written out and that holds a snapshot
\* of the region, list_region_snapshot answers with the flights that
\* _parse_flights makes of the payload of a snapshot that get_latest_snapshot
\* returns for the region, with their number as total_flights and with the
\* timestamp of that snapshot.
C26_DirectRead ==
    (/\ writing = {}
     /\ call.op = "list_region_snapshot"
     /\ SnapshotsOf(snapshots, call.region_name) # {})
        => \E latest \in GetLatestSnapshot(snapshots, call.region_name) :
              /\ reply.raised = None
              /\ Val(reply.value).success
              /\ Val(reply.value).flights = ParseFlights(Val(latest).data)
              /\ Val(reply.value).total_flights
                    = Some(Len(ParseFlights(Val(latest).data)))
              /\ Val(reply.value).timestamp = Some(Val(latest).timestamp)

----------------------------------------------------------------------------
(* Properties of the summary *)

\* the anomalies of one severity, in the order given
OfSeverity(all_anomalies, severity) ==
    SelectSeq(all_anomalies, LAMBDA a : a.severity = severity)

\* the item lines that follow the header piece in summary text
ItemsAfter(text, header) ==
    LET at == {i \in DOMAIN text : text[i].part = header}
    IN IF at = {}
       THEN <<>>
       ELSE LET h == CHOOSE i \in at : TRUE
                n == CHOOSE k \in 0..(Len(text) - h) :
                        /\ \A j \in 1..k : text[h + j].part = "item"
                        /\ (h + k < Len(text) => text[h + k + 1].part # "item")
            IN SubSeq(text, h + 1, h + n)

Pieces(text, part) == {i \in DOMAIN text : text[i].part = part}

\* the item lines of the first limit anomalies of group, each naming its
\* flight as Name does
FirstItems(group, limit, Name(_)) ==
    [i \in 1..(IF Len(group) < limit THEN Len(group) ELSE limit) |->
        [part |-> "item", callsign |-> Name(group[i].flight),
         description |-> group[i].description]]

\* the summary of a call lists the first 3 anomalies of high and the first 2
\* of medium severity under their headers and its callout is there when
\* called for; flights are named as Name does
ListsTop(Name(_), called_for) ==
    LET text == Val(reply.value)
        high == OfSeverity(call.anomalies, "high")
        medium == OfSeverity(call.anomalies, "medium")
    IN /\ Cardinality(Pieces(text, "critical_header")) <= 1
       /\ Cardinality(Pieces(text, "medium_header")) <= 1
       /\ Cardinality(Pieces(text, "most_critical")) <= 1
       /\ Cardinality(Pieces(text, "item"))
             = Len(ItemsAfter(text, "critical_header"))
               + Len(ItemsAfter(text, "medium_header"))
       /\ Len(call.flights) > 0
             => /\ ItemsAfter(text, "critical_header") = FirstItems(high, 3, Name)
                /\ ItemsAfter(text, "medium_header") = FirstItems(medium, 2, Name)
       /\ Pieces(text, "most_critical") # {} <=> called_for
       /\ \A i \in Pieces(text, "most_critical") :
             /\ i = Len(text)
             /\ text[i].callsign = Name(high[1].flight)
             /\ text[i].latitude = high[1].flight.latitude
             /\ text[i].longitude = high[1].flight.longitude

IdentifierOf(flight) == flight.icao24

\* C27: with no flights generate_summary returns the "no active flights"
\* sentence of the region and nothing else, whatever anomalies it is given;
\* with flights and no anomalies it returns the sentence with the number of
\* flights followed by the "all normal" sentence and nothing else.
C27_FixedMessages ==
    call.op = "generate_summary" =>
        /\ Len(call.flights) = 0
              => Val(reply.value)
                    = <<[part |-> "no_flights", region |-> call.region_name]>>
        /\ (Len(call.flights) > 0 /\ Len(call.anomalies) = 0)
              => Val(reply.value)
                    = <<[part |-> "flights", region |-> call.region_name,
                         total_flights |-> Len(call.flights)],
                        [part |-> "all_normal"]>>

\* a summary of no flights and of anomalies, one of them of high severity
C27_Witness ==
    /\ call.op = "generate_summary"
    /\ Len(call.flights) = 0
    /\ OfSeverity(call.anomalies, "high") # <<>>
    /\ Len(Val(reply.value)) = 1

\* C28 as stated: the summary lists the first 3 high and the first 2 medium
\* anomalies of its input, each with the identifier (icao24) of its flight
\* and its description, and the "most critical" callout names the identifier
\* and position of the first high anomaly and is there exactly when the
\* input holds a high anomaly.
C28_TopAnomalies ==
    call.op = "generate_summary" =>
        ListsTop(IdentifierOf, OfSeverity(call.anomalies, "high") # <<>>)

\* C28 as the code has it: the summary of at least one flight lists the
\* first 3 high and the first 2 medium anomalies of its input, each with the
\* callsign of its flight (its icao24 when the callsign is absent or empty)
\* and its description; the "most critical" callout names the first high
\* anomaly in the same way, with its position, and is there exactly when
\* there is a flight and a high anomaly.
C28_TopAnomaliesByCallsign ==
    call.op = "generate_summary" =>
        ListsTop(CallsignOf,
                 Len(call.flights) > 0 /\ OfSeverity(call.anomalies, "high") # <<>>)

\* a summary of four high anomalies and one medium: three and one are listed
C28_Witness ==
    /\ call.op = "generate_summary"
    /\ Len(call.flights) > 0
    /\ Len(OfSeverity(call.anomalies, "high")) = 4
    /\ Len(ItemsAfter(Val(reply.value), "critical_header")) = 3
    /\ Len(ItemsAfter(Val(reply.value), "medium_header")) = 1
    /\ Pieces(Val(reply.value), "most_critical") # {}

----------------------------------------------------------------------------
(* Properties of the writers *)

\* C29: the cycles of different regions do not disturb each other's records,
\* in whatever order and at whatever clock readings they write: a cycle of
\* one region leaves every stored snapshot and every stored alert of another
\* region in place and unchanged.
C29_RegionsDoNotCollide ==
    [][cycles' = cycles + 1 =>
        /\ \A k \in DOMAIN snapshots :
              k.region # request'.region
                  => k \in DOMAIN snapshots' /\ snapshots'[k] = snapshots[k]
        /\ \A id \in DOMAIN alerts :
              alerts[id].region # request'.region
                  => /\ id \in DOMAIN alerts'
                     /\ alerts'[id] = alerts[id]]_vars

\* the cycle of the i-th region of iteration n has just returned
Served(n, i) ==
    /\ request.region = RegionConfigs[i]
    /\ IF i = Len(RegionConfigs)
       THEN loop.iteration = n + 1 /\ loop.index = 1
       ELSE loop.iteration = n /\ loop.index = i + 1

\* C30: fetch_loop does not end by itself and serves every region in every
\* iteration: each pass runs the cycle of the region at the loop's place in
\* region_configs and moves to the next region, or to the first region of
\* the next iteration after the last one, whatever the cycle returned; and
\* once an iteration has started, the cycle of every region of that
\* iteration is run, the last one starting the next iteration.
C30_LoopServesEveryRegion ==
    /\ [][/\ request'.region = RegionConfigs[loop.index]
          /\ ~loop'.aborted
          /\ Len(loop'.ran) = loop.index
          /\ \A i \in 1..loop.index : loop'.ran[i].region = RegionConfigs[i]
          /\ IF loop.index = Len(RegionConfigs)
             THEN loop'.index = 1 /\ loop'.iteration = loop.iteration + 1
             ELSE loop'.index = loop.index + 1 /\ loop'.iteration = loop.iteration]_vars
    /\ \A n \in 0..(MaxIterations - 1) : \A i \in DOMAIN RegionConfigs :
          (loop.iteration = n /\ loop.index = 1) ~> Served(n, i)

\* the last iteration of a behaviour has run a failed cycle of the first
\* region and then the cycle of the last region
C30_Witness ==
    /\ loop.iteration = MaxIterations
    /\ loop.index = 1
    /\ Len(loop.ran) = Len(RegionConfigs)
    /\ ~loop.ran[1].success
    /\ loop.ran[Len(RegionConfigs)].region = RegionConfigs[Len(RegionConfigs)]

----------------------------------------------------------------------------
(* Properties of the history cursor *)

\* the record check 6 reads as the previous state of flight: the entry of
\* self.previous_states under the flight's key, if there is one
PreviousUsed(flight, previous) ==
    IF CallsignOf(flight) \in DOMAIN previous
    THEN Some(previous[CallsignOf(flight)])
    ELSE None

\* the flight is airborne with a velocity that is present and below 50
SlowAirborne(flight) ==
    /\ ~flight.on_ground
    /\ flight.velocity # None
    /\ Val(flight.velocity) < 50

\* C31: the history cursor is keyed by identifier: the previous record rule 7
\* uses for a flight is a record of the same identifier, never the record of
\* another aircraft that carries the same callsign; and the record stored for
\* a slow airborne flight is the previous record of every later observation
\* of its identifier, whatever callsign that observation carries.
C31_CursorKeyedByIdentifier ==
    [][\A g \in TrackFlights :
          /\ PreviousUsed(g, previous_states') # None
                => Val(PreviousUsed(g, previous_states')).icao24 = g.icao24
          /\ (/\ Len(flights') = 1
              /\ SlowAirborne(flights'[1])
              /\ g.icao24 = flights'[1].icao24)
                => PreviousUsed(g, previous_states') = Some(flights'[1])]_vars

\* the records the cursor holds for the aircraft with this identifier
RecordsOf(previous, icao24) ==
    {previous[k] : k \in {j \in DOMAIN previous : previous[j].icao24 = icao24}}

\* C32: when detect processes a flight, the cursor entry of its identifier
\* becomes the current record if and only if the flight is airborne with a
\* velocity that is present and below 50; otherwise that entry stays as it
\* was, and the entries of other identifiers are never changed.
C32_CursorUpdateRule ==
    [][Len(flights') = 1 =>
        LET f == flights'[1]
        IN /\ SlowAirborne(f)
                => RecordsOf(previous_states', f.icao24) = {f}
           /\ ~SlowAirborne(f)
                => RecordsOf(previous_states', f.icao24)
                     = RecordsOf(previous_states, f.icao24)
           /\ \A g \in TrackFlights :
                g.icao24 # f.icao24
                    => RecordsOf(previous_states', g.icao24)
                         = RecordsOf(previous_states, g.icao24)]_vars

\* the rule bank in the order of section 4.3
RuleBank ==
    <<"high_altitude_low_speed", "excessive_altitude", "low_altitude_high_speed",
      "rapid_vertical_movement", "excessive_speed", "stationary_in_air">>

\* the place of an anomaly type in the rule bank
RuleRank(type) == CHOOSE i \in DOMAIN RuleBank : RuleBank[i] = type

\* C33: detect returns the anomalies in evaluation order: every anomaly
\* carries the record of a flight of the batch, the anomalies follow the
\* input order of their flights, and the anomalies of one flight follow the
\* order of the rule bank.
C33_EvaluationOrder ==
    \E of \in [DOMAIN anomalies -> DOMAIN flights] :
        /\ \A i \in DOMAIN anomalies :
              /\ anomalies[i].flight = flights[of[i]]
              /\ anomalies[i].anomaly_type \in {RuleBank[r] : r \in DOMAIN RuleBank}
        /\ \A i, j \in DOMAIN anomalies :
              i < j => \/ of[i] < of[j]
                       \/ /\ of[i] = of[j]
                          /\ RuleRank(anomalies[i].anomaly_type)
                               < RuleRank(anomalies[j].anomaly_type)

\* C33 witness: a batch of two flights whose first flight fired three rules,
\* the last of them stationary_in_air, and whose second flight fired one
C33_Witness ==
    /\ flights = <<Hover, SampleFast>>
    /\ Len(anomalies) = 4
    /\ anomalies[3].anomaly_type = "stationary_in_air"
    /\ anomalies[4].flight = SampleFast

----------------------------------------------------------------------------
(* Properties of the cycle as a state machine *)

\* the four ways a cycle ends
CycleEnds == {"Success", "RateLimited", "TimedOut", "Failed"}

\* the value fetch_region returned says that the cycle ended as end
EndedAs(r, end) ==
    CASE end = "Success" -> r.success
      [] end = "RateLimited" -> ~r.success /\ r.status_code = Some(429)
      [] end = "TimedOut" ->
            ~r.success /\ r.status_code = None /\ r.error = Some("Request timeout")
      [] end = "Failed" ->
            /\ ~r.success /\ r.status_code = None
            /\ r.error # None /\ r.error # Some("Request timeout")

\* C34: every cycle sends exactly one request to the provider, returns (the
\* fetcher is idle again, no exception leaves it) and ends as exactly one of
\* Success, RateLimited, TimedOut and Failed: RateLimited when the provider
\* answered 429, TimedOut when the request timed out, Failed on any other
\* failure of the provider or of the storage.
C34_CycleStateMachine ==
    [][cycles' = cycles + 1 =>
        /\ request'.sent = 1
        /\ result'.raised = None
        /\ Cardinality({end \in CycleEnds : EndedAs(result', end)}) = 1
        /\ EndedAs(result', "RateLimited") <=> request'.outcome = "rate_limited"
        /\ EndedAs(result', "TimedOut") <=> request'.outcome = "timeout"
        /\ EndedAs(result', "Failed")
              <=> \/ request'.outcome \in FailureOutcomes \ {"rate_limited", "timeout"}
                  \/ request'.outcome = "ok" /\ ~result'.success]_vars

\* C34 witness: after a cycle that wrote a snapshot the fetcher ran a second
\* cycle, which sent one request and timed out
C34_Witness ==
    /\ cycles = 2
    /\ request.sent = 1
    /\ request.outcome = "timeout"
    /\ EndedAs(result, "TimedOut")
    /\ DOMAIN snapshots # {}

----------------------------------------------------------------------------
(* Properties of the scheduler *)

\* C35: fetch_loop is a single sequential scheduler: at most one cycle is in
\* progress at any time, a cycle is entered only when none is in progress,
\* and the history cursor changes only in the step in which the one cycle in
\* progress runs detect and returns.
C35_SequentialScheduler ==
    /\ [](Len(running) <= 1)
    /\ [][/\ Len(running') > Len(running) => running = <<>>
          /\ previous_states' # previous_states
                => (running = <<loop.index>> /\ running' = <<>>)]_vars

\* C35 witness: the cycle of the second region is in progress after the
\* cycle of the first region has stored a record in the cursor
C35_Witness ==
    /\ running = <<2>>
    /\ cycles = 1
    /\ DOMAIN previous_states # {}

----------------------------------------------------------------------------
(* Properties of the read front-ends *)

\* the answer of list_region_snapshot or get_snapshot shows stored snapshot k
ShowsSnapshot(answer, k) ==
    /\ answer.timestamp = Some(snapshots[k].content.timestamp)
    /\ answer.flights = ParseFlights(snapshots[k].content.data)

\* C36: the reads of a region only return a snapshot that was saved with
\* that region name: get_latest_snapshot(R) returns a snapshot whose region
\* is R, and list_region_snapshot(R) and the backend's get_snapshot(R), when
\* they succeed, show a stored snapshot of R, also when the name of another
\* stored region starts with R and an underscore.
C36_RegionIsolation ==
    [][/\ (call'.op = "get_latest_snapshot" /\ reply'.value # None)
            => Val(reply'.value).region = call'.region_name
       /\ (/\ call'.op \in {"list_region_snapshot", "get_snapshot"}
           /\ reply'.raised = None
           /\ Val(reply'.value).success)
            => \E k \in SnapshotsOf(snapshots, call'.region_name) :
                  ShowsSnapshot(Val(reply'.value), k)]_vars

----------------------------------------------------------------------------
(* Properties of the order of a cycle's writes *)

\* C37: a cycle that returns success false, whatever made it fail, has left
\* the stored snapshots, the stored alerts and the history cursor exactly as
\* they were before the cycle.
C37_FailedCycleAtomic ==
    [][(cycles' = cycles + 1 /\ ~result'.success) =>
        /\ snapshots' = snapshots
        /\ alerts' = alerts
        /\ previous_states' = previous_states]_vars

\* C38: within a cycle the raw snapshot is persisted before detection runs
\* and before any alert is persisted: a cycle whose snapshot failed to
\* persist fails, stores no alert, runs no detection and leaves the cursor as
\* it was; and a cycle that stored an alert or changed the cursor has stored
\* the snapshot of the payload it detected on.
C38_SnapshotBeforeAlerts ==
    [][cycles' = cycles + 1 =>
        /\ request'.fault.op = "snapshot"
              => /\ ~result'.success
                 /\ alerts' = alerts
                 /\ <<previous_states, flights, anomalies>>'
                      = <<previous_states, flights, anomalies>>
        /\ (alerts' # alerts \/ previous_states' # previous_states)
              => \E k \in SnapshotsOf(snapshots', request'.region) :
                    /\ snapshots'[k].content.data = Val(request'.data)
                    /\ snapshots'[k].mtime = k.timestamp
                    /\ k.timestamp <= now']_vars

\* C38 witness: open() failed in save_snapshot for a payload that holds a
\* flight at 16000 m and 80 km/h, and the store holds no alert
C38_Witness ==
    /\ request.fault.op = "snapshot"
    /\ request.data = Some([states |-> StatesList(<<RowHigh>>)])
    /\ ~result.success
    /\ alerts = EmptyDict
    /\ previous_states = EmptyDict

\* the two flight dicts are the same row: same identifier, callsign and
\* state fields
SameRow(f, g) ==
    /\ f.icao24 = g.icao24 /\ f.callsign = g.callsign
    /\ f.origin_country = g.origin_country
    /\ f.longitude = g.longitude /\ f.latitude = g.latitude
    /\ f.altitude = g.altitude /\ f.on_ground = g.on_ground
    /\ f.velocity = g.velocity /\ f.heading = g.heading
    /\ f.vertical_rate = g.vertical_rate

\* the answer of MCPTools.get_by_callsign and the answer of the backend's
\* get_flight agree
LookupsAgree(tool, backend) ==
    /\ tool.raised = None <=> backend.raised = None
    /\ tool.raised = None =>
          /\ Val(tool.value).success <=> Val(backend.value).success
          /\ Val(tool.value).success
                => SameRow(Val(Val(tool.value).flight), Val(Val(backend.value).flight))

\* C39: the two flight-lookup front-ends agree: for every content of the
\* store and every query, get_by_callsign of the tools and get_flight of the
\* backend both find the flight or both do not, and when they find it they
\* return the same row.
C39_LookupsAgree ==
    [][/\ call'.op = "get_by_callsign"
            => \E order \in SortedByMtime(snapshots) :
                  LookupsAgree(reply', GetFlight(snapshots, order, call'.callsign))
       /\ call'.op = "get_flight"
            => \E order \in SortedByMtime(snapshots) :
                  LookupsAgree(GetByCallsign(snapshots, order, call'.callsign),
                               reply')]_vars

----------------------------------------------------------------------------
(* Properties of reads during a write *)

\* the files of a directory without those that are being written
WrittenOut(files, Name(_)) ==
    [k \in {j \in DOMAIN files : Name(j) \notin writing} |-> files[k]]

\* what the query op with argument arg answers on a store whose files are
\* all written out
AnswersOn(op, arg, files, alertfiles) ==
    CASE op = "list_region_snapshot" ->
            {Endpoint(ListRegionSnapshot(got, arg)) :
                got \in ReadLatestSnapshot(files, {}, arg)}
      [] op = "get_by_callsign" ->
            {Endpoint(ReadByCallsign(files, {}, order, arg)) :
                order \in SortedByMtime(files)}
      [] op = "list_active_alerts" ->
            {Endpoint(ListActiveAlerts(ReadActiveAlerts(alertfiles, {}, now, arg)))}

\* the argument of the query recorded in c
ArgumentOf(c) ==
    CASE c.op = "list_region_snapshot" -> c.region_name
      [] c.op = "get_by_callsign" -> c.callsign
      [] c.op = "list_active_alerts" -> c.max_age_hours

\* C40: a query that runs while a snapshot or an alert is being written never
\* observes a partially written record: it answers what it would answer on
\* the store before the write (without the files being written) or what it
\* would answer on the store with those files complete.
C40_ConsistentReads ==
    [][(/\ writing # {}
        /\ call'.op \in {"list_region_snapshot", "get_by_callsign",
                         "list_active_alerts"})
        => reply' \in AnswersOn(call'.op, ArgumentOf(call'),
                                WrittenOut(snapshots, FileName),
                                WrittenOut(alerts, AlertFileName))
                      \cup AnswersOn(call'.op, ArgumentOf(call'), snapshots, alerts)]_vars

====
